---- MODULE Spec2Model ----
(***************************************************************************)
(* A model of the gdelta delta-compression engine: the byte stream         *)
(* (src/src/buffer.rs), the varint and delta-unit codec                    *)
(* (src/src/varint.rs), the encoder and the decoder (src/src/delta.rs).    *)
(* The rolling-fingerprint module (gear.rs) is modelled from the           *)
(* specification text.                                                     *)
(*                                                                         *)
(* Byte sequences are TLA+ sequences of numbers in 0..255; the source's    *)
(* 0-based index i is the sequence index i + 1.  A u64 is a tuple of four  *)
(* 16-bit limbs, least significant first, so that arithmetic keeps its     *)
(* 64-bit width.                                                           *)
(***************************************************************************)
EXTENDS Integers, Sequences, FiniteSets, TLC

VARIABLES
    new_data, base_data, gear,                    \* the inputs of encode
    pc,                                           \* position of the run
    prefix_size, suffix_size,                     \* encode's locals
    instruction_stream, data_stream, units,       \* the two streams, and the units written
    hash_table, hash_shift,                       \* the index of the base
    pos, literal_start, fingerprint,              \* encode_middle_section's locals
    delta,                                        \* the blob encode returns
    delta_stream, inst_end, lit_stream, output,   \* decode's locals
    result,                                       \* what decode returns
    overflow_checks,                              \* the build: integer overflow panics or wraps
    calls,                                        \* the encode calls that returned before this one
    vval, vbuf, vread, vpc                        \* the varint round trip

vars == <<new_data, base_data, gear, pc, prefix_size, suffix_size,
          instruction_stream, data_stream, units, hash_table, hash_shift,
          pos, literal_start, fingerprint, delta, delta_stream, inst_end,
          lit_stream, output, result, overflow_checks, calls, vval, vbuf, vread, vpc>>

(***************************************************************************)
(* Bounds of the model.                                                    *)
(***************************************************************************)
\* longest shared head / tail text of the generated inputs
MaxShared == 17
\* longest padding around the movable block of a generated middle
MaxPad == 2
\* the lengths and offsets of the unit round trip lie below 2^UnitBits
UnitBits == 32
\* most units in the instruction stream of a delta put together by hand
MaxUnits == 2
\* most encode calls in a row
MaxCalls == 3
\* the region lengths of the hash-table sizing lie below 2^HashRangeBits
HashRangeBits == 32
\* most bytes in the stream of the byte-stream runs
MaxStream == 3
\* longest match and longest shared tail of the chunked comparisons
MaxMatch == 41

(***************************************************************************)
(* Program constants.                                                      *)
(***************************************************************************)
MIN_MATCH_LENGTH == 16
WORD_SIZE == 8
VARINT_BITS == 7
HEAD_VARINT_BITS == 6
\* width of the integers the codec carries
U64Bits == 64
\* width of one limb of the model's u64: four limbs to a u64
LimbBits == U64Bits \div 4

(***************************************************************************)
(* 64-bit unsigned arithmetic on limbs.                                    *)
(***************************************************************************)
Pow2(k) == 2 ^ k

Limb == Pow2(LimbBits)

\* `n as u64` for a size the model can hold in one integer
U64(n) == <<n % Limb, (n \div Limb) % Limb, 0, 0>>

U64Zero == <<0, 0, 0, 0>>

U64Max == <<Limb - 1, Limb - 1, Limb - 1, Limb - 1>>

\* the value of a u64 that fits a model integer
ToNat(u) == u[1] + Limb * u[2]

\* u >> k, for 0 <= k < LimbBits
ShrSmall(u, k) ==
    LET d == Pow2(k)
        m == Pow2(LimbBits - k)
    IN  <<(u[1] \div d) + (u[2] % d) * m,
          (u[2] \div d) + (u[3] % d) * m,
          (u[3] \div d) + (u[4] % d) * m,
          u[4] \div d>>

\* u << k wrapping at 64 bits, for 0 <= k < LimbBits
ShlSmall(u, k) ==
    LET d == Pow2(k)
        m == Pow2(LimbBits - k)
    IN  <<(u[1] * d) % Limb,
          ((u[2] * d) % Limb) + (u[1] \div m),
          ((u[3] * d) % Limb) + (u[2] \div m),
          ((u[4] * d) % Limb) + (u[3] \div m)>>

\* the limbs of u moved q places down / up
LimbsDown(u, q) ==
    IF q = 0 THEN u
    ELSE IF q = 1 THEN <<u[2], u[3], u[4], 0>>
    ELSE IF q = 2 THEN <<u[3], u[4], 0, 0>>
    ELSE <<u[4], 0, 0, 0>>

LimbsUp(u, q) ==
    IF q = 0 THEN u
    ELSE IF q = 1 THEN <<0, u[1], u[2], u[3]>>
    ELSE IF q = 2 THEN <<0, 0, u[1], u[2]>>
    ELSE <<0, 0, 0, u[1]>>

\* u >> k for any 0 <= k < 64
Shr(u, k) == ShrSmall(LimbsDown(u, k \div LimbBits), k % LimbBits)

\* u << k wrapping at 64 bits, for any 0 <= k < 64
Shl(u, k) == ShlSmall(LimbsUp(u, k \div LimbBits), k % LimbBits)

RECURSIVE BitOr(_, _)
BitOr(a, b) ==
    IF a = 0 THEN b
    ELSE IF b = 0 THEN a
    ELSE (IF a % 2 = 1 \/ b % 2 = 1 THEN 1 ELSE 0) + 2 * BitOr(a \div 2, b \div 2)

Or64(u, v) == <<BitOr(u[1], v[1]), BitOr(u[2], v[2]), BitOr(u[3], v[3]), BitOr(u[4], v[4])>>

\* the limb sums of u + v with their carries
LimbSums(u, v) ==
    LET s1 == u[1] + v[1]
        s2 == u[2] + v[2] + (s1 \div Limb)
        s3 == u[3] + v[3] + (s2 \div Limb)
        s4 == u[4] + v[4] + (s3 \div Limb)
    IN  <<s1, s2, s3, s4>>

\* wrapping_add
Add64(u, v) ==
    LET s == LimbSums(u, v)
    IN  <<s[1] % Limb, s[2] % Limb, s[3] % Limb, s[4] % Limb>>

\* whether u + v leaves the 64-bit range
AddOverflows(u, v) == LimbSums(u, v)[4] >= Limb

\* u < v
Less64(u, v) ==
    IF u[4] # v[4] THEN u[4] < v[4]
    ELSE IF u[3] # v[3] THEN u[3] < v[3]
    ELSE IF u[2] # v[2] THEN u[2] < v[2]
    ELSE u[1] < v[1]

(***************************************************************************)
(* Byte slices with the source's 0-based indices.                          *)
(***************************************************************************)
At(s, i) == s[i + 1]

\* s[a..b]
Slice(s, a, b) == SubSeq(s, a + 1, b)

Min(a, b) == IF a <= b THEN a ELSE b

(***************************************************************************)
(* BufferStream (buffer.rs).                                               *)
(***************************************************************************)
with_capacity == [buffer |-> <<>>, cursor |-> 0]

from_slice(data) == [buffer |-> data, cursor |-> 0]

set_position(bs, p) == [bs EXCEPT !.cursor = p]

write_u8(bs, value) ==
    [buffer |-> Append(bs.buffer, value), cursor |-> bs.cursor + 1]

write_bytes(bs, data) ==
    [buffer |-> bs.buffer \o data, cursor |-> bs.cursor + Len(data)]

\* Result<u8>: the error kind, the byte and the stream after the call
read_u8(bs) ==
    IF bs.cursor >= Len(bs.buffer)
    THEN [err |-> "UnexpectedEndOfData", value |-> 0, bs |-> bs]
    ELSE [err |-> "none", value |-> At(bs.buffer, bs.cursor),
          bs |-> [bs EXCEPT !.cursor = bs.cursor + 1]]

\* read_bytes(len), len a usize held as a u64.  cursor + len may leave the
\* 64-bit range: ovf records that it did (a build with overflow checks panics
\* there), and the outcome given is the one of the wrapped sum: the test of
\* line 106 passes when the wrapped sum lies within the buffer, and the slice
\* of line 111, whose start then lies after its end, panics.
read_bytes(bs, len) ==
    LET sum == Add64(U64(bs.cursor), len)
        ovf == AddOverflows(U64(bs.cursor), len)
    IN  IF Less64(U64(Len(bs.buffer)), sum)
        THEN [err |-> "UnexpectedEndOfData", value |-> <<>>, bs |-> bs, ovf |-> ovf]
        ELSE IF ovf
        THEN [err |-> "Panic", value |-> <<>>, bs |-> bs, ovf |-> ovf]
        ELSE [err |-> "none", value |-> Slice(bs.buffer, bs.cursor, ToNat(sum)),
              bs |-> [bs EXCEPT !.cursor = ToNat(sum)], ovf |-> FALSE]

\* peek_at(position, len), both usize held as u64, with position + len as in
\* read_bytes
peek_at(bs, position, len) ==
    LET sum == Add64(position, len)
        ovf == AddOverflows(position, len)
    IN  IF Less64(U64(Len(bs.buffer)), sum)
        THEN [err |-> "UnexpectedEndOfData", value |-> <<>>, ovf |-> ovf]
        ELSE IF ovf
        THEN [err |-> "Panic", value |-> <<>>, ovf |-> ovf]
        ELSE [err |-> "none", value |-> Slice(bs.buffer, ToNat(position), ToNat(sum)),
              ovf |-> FALSE]

(***************************************************************************)
(* Varint codec (varint.rs).                                               *)
(***************************************************************************)
VARINT_MASK == Pow2(VARINT_BITS) - 1

HEAD_VARINT_MASK == Pow2(HEAD_VARINT_BITS) - 1

\* value & mask for a mask 2^k - 1 below one limb
LowBits(u, mask) == u[1] % (mask + 1)

RECURSIVE write_varint_loop_unflagged(_, _)
\* the general case of write_varint without the continuation bit of line 46
write_varint_loop_unflagged(bs, val) ==
    LET byte_val == LowBits(val, VARINT_MASK)
        rest == ShrSmall(val, VARINT_BITS)
    IN  IF rest = U64Zero
        THEN write_u8(bs, byte_val)
        ELSE write_varint_loop_unflagged(write_u8(bs, byte_val), rest)

RECURSIVE write_varint_loop(_, _)
\* the general case of write_varint: lines 41-50
write_varint_loop(bs, val) ==
    LET byte_val == LowBits(val, VARINT_MASK)
        rest == ShrSmall(val, VARINT_BITS)
    IN  IF rest = U64Zero
        THEN write_u8(bs, byte_val)
        ELSE write_varint_loop(write_u8(bs, byte_val + 128), rest)

\* write_varint with the one-byte fast path taken for 128 as well
write_varint_le(bs, value) ==
    IF Less64(value, U64(129))
    THEN write_u8(bs, ToNat(value) % 256)
    ELSE IF Less64(value, U64(16384))
    THEN write_u8(write_u8(bs, (ToNat(value) % 128) + 128),
                  (ToNat(value) \div 128) % 256)
    ELSE write_varint_loop(bs, value)

write_varint(bs, value) ==
    IF Less64(value, U64(128))
    THEN write_u8(bs, ToNat(value) % 256)
    ELSE IF Less64(value, U64(16384))
    THEN write_u8(write_u8(bs, (ToNat(value) % 128) + 128),
                  (ToNat(value) \div 128) % 256)
    ELSE write_varint_loop(bs, value)

RECURSIVE read_varint_loop(_, _, _, _)
\* the general case of read_varint: lines 73-81.  shift is a u8; a shift of 64 or
\* more, or a shift counter passing 255, is an arithmetic overflow (a panic in a
\* checked build, a wrapped value otherwise): ovf records that it happened and
\* the value is the wrapped one.
read_varint_loop(bs, value, shift, ovf) ==
    LET r == read_u8(bs)
    IN  IF r.err # "none"
        THEN [err |-> r.err, value |-> U64Zero, bs |-> r.bs, ovf |-> ovf]
        ELSE LET more == r.value >= 128
                 part == Shl(U64(r.value % 128), shift % U64Bits)
                 value2 == Or64(value, part)
                 ovf2 == ovf \/ shift >= U64Bits \/ shift + VARINT_BITS > 255
                 shift2 == (shift + VARINT_BITS) % 256
             IN  IF more
                 THEN read_varint_loop(r.bs, value2, shift2, ovf2)
                 ELSE [err |-> "none", value |-> value2, bs |-> r.bs, ovf |-> ovf2]

read_varint(bs) ==
    LET r1 == read_u8(bs)
    IN  IF r1.err # "none"
        THEN [err |-> r1.err, value |-> U64Zero, bs |-> r1.bs, ovf |-> FALSE]
        ELSE IF r1.value < 128
        THEN [err |-> "none", value |-> U64(r1.value), bs |-> r1.bs, ovf |-> FALSE]
        ELSE LET r2 == read_u8(r1.bs)
             IN  IF r2.err # "none"
                 THEN [err |-> r2.err, value |-> U64Zero, bs |-> r2.bs, ovf |-> FALSE]
                 ELSE IF r2.value < 128
                 THEN [err |-> "none",
                       value |-> U64((r1.value % 128) + r2.value * 128),
                       bs |-> r2.bs, ovf |-> FALSE]
                 ELSE read_varint_loop(
                          r2.bs,
                          U64((r1.value % 128) + (r2.value % 128) * 128),
                          14, FALSE)

(***************************************************************************)
(* Delta units (varint.rs).                                                *)
(***************************************************************************)
copy(offset, length) == [is_copy |-> TRUE, length |-> length, offset |-> offset]

literal(length) == [is_copy |-> FALSE, length |-> length, offset |-> U64Zero]

write_delta_unit(bs, unit) ==
    LET flag == IF unit.is_copy THEN 1 ELSE 0
        head_length == LowBits(unit.length, HEAD_VARINT_MASK)
        remaining_length == ShrSmall(unit.length, HEAD_VARINT_BITS)
        more == IF remaining_length # U64Zero THEN 1 ELSE 0
        head_byte == flag * 128 + more * 64 + head_length
        b1 == write_u8(bs, head_byte)
        b2 == IF remaining_length # U64Zero THEN write_varint(b1, remaining_length) ELSE b1
    IN  IF unit.is_copy THEN write_varint(b2, unit.offset) ELSE b2

\* read_delta_unit taking the offset varint for literals as well
read_delta_unit_always_offset(bs) ==
    LET h == read_u8(bs)
        more == (h.value \div 64) % 2 = 1
        fail(e, b, o) == [err |-> e, unit |-> literal(U64Zero), bs |-> b, ovf |-> o]
    IN  IF h.err # "none" THEN fail(h.err, h.bs, FALSE)
        ELSE LET rl == IF more THEN read_varint(h.bs)
                       ELSE [err |-> "none", value |-> U64Zero, bs |-> h.bs, ovf |-> FALSE]
                 length == Or64(U64(h.value % 64), Shl(rl.value, HEAD_VARINT_BITS))
             IN  IF rl.err # "none" THEN fail(rl.err, rl.bs, rl.ovf)
                 ELSE LET ro == read_varint(rl.bs)
                      IN  IF ro.err # "none" THEN fail(ro.err, ro.bs, rl.ovf \/ ro.ovf)
                          ELSE [err |-> "none",
                                unit |-> [is_copy |-> h.value >= 128, length |-> length,
                                          offset |-> ro.value],
                                bs |-> ro.bs, ovf |-> rl.ovf \/ ro.ovf]

\* Result<DeltaUnit>: the error kind, the unit and the stream after the call
read_delta_unit(bs) ==
    LET h == read_u8(bs)
        is_copy == h.value >= 128
        more == (h.value \div 64) % 2 = 1
        low == U64(h.value % 64)
        fail(e, b, o) == [err |-> e, unit |-> literal(U64Zero), bs |-> b, ovf |-> o]
    IN  IF h.err # "none" THEN fail(h.err, h.bs, FALSE)
        ELSE LET rl == IF more THEN read_varint(h.bs)
                       ELSE [err |-> "none", value |-> U64Zero, bs |-> h.bs, ovf |-> FALSE]
                 length == Or64(low, Shl(rl.value, HEAD_VARINT_BITS))
             IN  IF rl.err # "none" THEN fail(rl.err, rl.bs, rl.ovf)
                 ELSE LET ro == IF is_copy THEN read_varint(rl.bs)
                                ELSE [err |-> "none", value |-> U64Zero,
                                      bs |-> rl.bs, ovf |-> FALSE]
                      IN  IF ro.err # "none" THEN fail(ro.err, ro.bs, rl.ovf \/ ro.ovf)
                          ELSE [err |-> "none",
                                unit |-> [is_copy |-> is_copy, length |-> length,
                                          offset |-> ro.value],
                                bs |-> ro.bs, ovf |-> rl.ovf \/ ro.ovf]

(***************************************************************************)
(* Rolling fingerprint and index (gear.rs, taken from the specification:   *)
(* sections 3 and 4.3).  The 256 constants of the table are not given      *)
(* there; the model runs under each table of GearTables: in table 1 every  *)
(* limb of an entry carries bits, in table 2 only the top byte does (a     *)
(* byte then leaves the fingerprint after WORD_SIZE rolls).                *)
(***************************************************************************)
GearTables == {1, 2}

GearEntry(table, b) ==
    IF table = 1
    THEN <<(b * 40503 + 12345) % Limb, (b * 25173 + 13849) % Limb,
           (b * 31421 + 6927) % Limb, (b * 27361 + 4621) % Limb>>
    ELSE <<0, 0, 0, ((b * 167 + 13) % 256) * 256>>

\* G[b] of the table in use
G(b) == GearEntry(gear, b)

\* roll_fingerprint adding the incoming byte without the shift
roll_fingerprint_unshifted(fp, byte) == Add64(fp, G(byte))

roll_fingerprint(fp, byte) == Add64(ShlSmall(fp, 1), G(byte))

RECURSIVE fingerprint_from(_, _, _, _)
fingerprint_from(data, offset, i, fp) ==
    IF i = WORD_SIZE THEN fp
    ELSE fingerprint_from(data, offset, i + 1,
                          Add64(fp, ShlSmall(G(At(data, offset + i)), WORD_SIZE - 1 - i)))

\* FP(p) = sum of G[b[p+i]] << (W-1-i), mod 2^64
compute_fingerprint(data, offset) == fingerprint_from(data, offset, 0, U64Zero)

\* the slot of a fingerprint: fp >> hash_shift
hash_index(fp, shift) == ToNat(Shr(fp, shift))

RECURSIVE index_from(_, _, _, _, _, _)
index_from(data, p, end, shift, fp, table) ==
    IF p + WORD_SIZE > end THEN table
    ELSE index_from(data, p + 1, end, shift,
                    IF p + 1 + WORD_SIZE <= end
                    THEN roll_fingerprint(fp, At(data, p + WORD_SIZE))
                    ELSE fp,
                    [table EXCEPT ![hash_index(fp, shift)] = p])

\* 2^H slots, all 0; every p in start .. end - W stored at the slot of FP(p),
\* rolled from FP(start); the last writer wins
build_hash_table(data, start, end, hash_bits) ==
    LET empty == [s \in 0..(Pow2(hash_bits) - 1) |-> 0]
    IN  IF end - start < WORD_SIZE THEN empty
        ELSE index_from(data, start, end, U64Bits - hash_bits,
                        compute_fingerprint(data, start), empty)

(***************************************************************************)
(* Encoder helpers (delta.rs).                                             *)
(***************************************************************************)
RECURSIVE prefix_chunks(_, _, _, _)
\* lines 113-120: whole 8-byte chunks
prefix_chunks(a, b, len, max_len) ==
    IF len + 8 <= max_len /\ Slice(a, len, len + 8) = Slice(b, len, len + 8)
    THEN prefix_chunks(a, b, len + 8, max_len)
    ELSE len

RECURSIVE prefix_bytes(_, _, _, _)
\* lines 123-125: the remaining bytes
prefix_bytes(a, b, len, max_len) ==
    IF len < max_len /\ At(a, len) = At(b, len)
    THEN prefix_bytes(a, b, len + 1, max_len)
    ELSE len

\* find_common_prefix without the byte loop of lines 123-125
find_common_prefix_chunked(a, b) ==
    prefix_chunks(a, b, 0, Min(Len(a), Len(b)))

find_common_prefix(a, b) ==
    LET max_len == Min(Len(a), Len(b))
    IN  prefix_bytes(a, b, prefix_chunks(a, b, 0, max_len), max_len)

RECURSIVE suffix_chunks(_, _, _, _)
\* lines 154-163: whole 8-byte chunks from the end
suffix_chunks(a, b, len, max_len) ==
    IF /\ len + 8 <= max_len
       /\ Slice(a, Len(a) - len - 8, Len(a) - len) = Slice(b, Len(b) - len - 8, Len(b) - len)
    THEN suffix_chunks(a, b, len + 8, max_len)
    ELSE len

RECURSIVE suffix_bytes(_, _, _, _)
\* lines 166-171: the remaining bytes
suffix_bytes(a, b, len, max_len) ==
    IF len < max_len /\ At(a, Len(a) - len - 1) = At(b, Len(b) - len - 1)
    THEN suffix_bytes(a, b, len + 1, max_len)
    ELSE len

\* find_common_suffix looking into the prefix as well
find_common_suffix_overlapping(a, b, prefix_len) ==
    LET max_len == Min(Len(a), Len(b))
    IN  suffix_bytes(a, b, suffix_chunks(a, b, 0, max_len), max_len)

find_common_suffix(a, b, prefix_len) ==
    LET max_len == Min(Len(a) - prefix_len, Len(b) - prefix_len)
    IN  suffix_bytes(a, b, suffix_chunks(a, b, 0, max_len), max_len)

RECURSIVE suffix_chunks16(_, _, _, _)
\* lines 139-150, in a build with the simd feature
suffix_chunks16(a, b, len, max_len) ==
    IF /\ len + 16 <= max_len
       /\ Slice(a, Len(a) - len - 16, Len(a) - len) = Slice(b, Len(b) - len - 16, Len(b) - len)
    THEN suffix_chunks16(a, b, len + 16, max_len)
    ELSE len

\* find_common_suffix stopping at the first chunk that differs
find_common_suffix_chunked(a, b, prefix_len, simd) ==
    LET max_len == Min(Len(a) - prefix_len, Len(b) - prefix_len)
    IN  suffix_chunks(a, b, IF simd THEN suffix_chunks16(a, b, 0, max_len) ELSE 0, max_len)

\* find_common_suffix in the build with the simd feature (simd) or without it
find_common_suffix_built(a, b, prefix_len, simd) ==
    LET max_len == Min(Len(a) - prefix_len, Len(b) - prefix_len)
    IN  IF simd
        THEN suffix_bytes(a, b, suffix_chunks(a, b, suffix_chunks16(a, b, 0, max_len),
                                              max_len),
                          max_len)
        ELSE find_common_suffix(a, b, prefix_len)

RECURSIVE count_bits(_, _)
\* lines 180-183, temp a usize held as a u64
count_bits(temp, bits) ==
    IF temp # U64Zero THEN count_bits(ShrSmall(temp, 1), bits + 1) ELSE bits

\* calculate_hash_bits counting the bits of size + 9
calculate_hash_bits_ceil(size) == count_bits(Add64(size, U64(9)), 0)

\* size is a usize held as a u64
calculate_hash_bits(size) == count_bits(Add64(size, U64(10)), 0)

RECURSIVE extend_chunks(_, _, _, _, _, _, _)
\* lines 335-350
extend_chunks(new, base, new_pos, base_pos, new_end, base_end, len) ==
    IF /\ new_pos + len + 8 <= new_end
       /\ base_pos + len + 8 <= base_end
       /\ Slice(new, new_pos + len, new_pos + len + 8)
            = Slice(base, base_pos + len, base_pos + len + 8)
    THEN extend_chunks(new, base, new_pos, base_pos, new_end, base_end, len + 8)
    ELSE len

RECURSIVE extend_bytes(_, _, _, _, _, _, _)
\* lines 353-358
extend_bytes(new, base, new_pos, base_pos, new_end, base_end, len) ==
    IF /\ new_pos + len < new_end
       /\ base_pos + len < base_end
       /\ At(new, new_pos + len) = At(base, base_pos + len)
    THEN extend_bytes(new, base, new_pos, base_pos, new_end, base_end, len + 1)
    ELSE len

\* extend_match counting one byte past the end of the match
extend_match_plus_one(new, base, new_pos, base_pos, new_end, base_end) ==
    1 + extend_bytes(new, base, new_pos, base_pos, new_end, base_end,
                     extend_chunks(new, base, new_pos, base_pos, new_end, base_end,
                                   WORD_SIZE))

extend_match(new, base, new_pos, base_pos, new_end, base_end) ==
    extend_bytes(new, base, new_pos, base_pos, new_end, base_end,
                 extend_chunks(new, base, new_pos, base_pos, new_end, base_end, WORD_SIZE))

RECURSIVE extend_chunks16(_, _, _, _, _, _, _)
\* lines 314-331, in a build with the simd feature
extend_chunks16(new, base, new_pos, base_pos, new_end, base_end, len) ==
    IF /\ new_pos + len + 16 <= new_end
       /\ base_pos + len + 16 <= base_end
       /\ Slice(new, new_pos + len, new_pos + len + 16)
            = Slice(base, base_pos + len, base_pos + len + 16)
    THEN extend_chunks16(new, base, new_pos, base_pos, new_end, base_end, len + 16)
    ELSE len

\* extend_match without the byte loop of lines 353-358
extend_match_chunked(new, base, new_pos, base_pos, new_end, base_end, simd) ==
    extend_chunks(new, base, new_pos, base_pos, new_end, base_end,
                  IF simd
                  THEN extend_chunks16(new, base, new_pos, base_pos, new_end, base_end,
                                       WORD_SIZE)
                  ELSE WORD_SIZE)

\* extend_match in the build with the simd feature (simd) or without it
extend_match_built(new, base, new_pos, base_pos, new_end, base_end, simd) ==
    IF simd
    THEN extend_bytes(new, base, new_pos, base_pos, new_end, base_end,
             extend_chunks(new, base, new_pos, base_pos, new_end, base_end,
                 extend_chunks16(new, base, new_pos, base_pos, new_end, base_end,
                                 WORD_SIZE)))
    ELSE extend_match(new, base, new_pos, base_pos, new_end, base_end)

(***************************************************************************)
(* The encoder's output so far: the instruction stream, the literal-data   *)
(* stream, and the log of the units handed to write_delta_unit (the sizes  *)
(* before their cast to u64, with the place in encode that wrote them).    *)
(***************************************************************************)
\* the streams of the call before, in place of new ones
stale_output == [inst |-> instruction_stream, data |-> data_stream, units |-> units]

NoOutput == [inst |-> with_capacity, data |-> with_capacity, units |-> <<>>]

\* DeltaUnit::copy(offset as u64, length as u64) written to the instruction stream
put_copy(es, offset, length, role) ==
    [es EXCEPT !.inst = write_delta_unit(@, copy(U64(offset), U64(length))),
               !.units = Append(@, [is_copy |-> TRUE, length |-> length,
                                    offset |-> offset, role |-> role])]

\* a literal written as two units, the first of one byte
put_literal_split(es, bytes) ==
    LET one(e, bs) ==
            [e EXCEPT !.inst = write_delta_unit(@, literal(U64(Len(bs)))),
                      !.data = write_bytes(@, bs),
                      !.units = Append(@, [is_copy |-> FALSE, length |-> Len(bs),
                                           offset |-> 0, role |-> "literal"])]
    IN  IF Len(bytes) < 2 THEN one(es, bytes)
        ELSE one(one(es, SubSeq(bytes, 1, 1)), SubSeq(bytes, 2, Len(bytes)))

\* DeltaUnit::literal(len) written, and the bytes appended to the data stream
put_literal(es, bytes) ==
    [es EXCEPT !.inst = write_delta_unit(@, literal(U64(Len(bytes)))),
               !.data = write_bytes(@, bytes),
               !.units = Append(@, [is_copy |-> FALSE, length |-> Len(bytes),
                                    offset |-> 0, role |-> "literal"])]

\* encode_trivial_case without the middle_size > 0 test of line 206
encode_trivial_case_unguarded(new, prefix, suffix, es) ==
    LET new_size == Len(new)
        e1 == IF prefix > 0 THEN put_copy(es, 0, prefix, "prefix") ELSE es
        e2 == put_literal(e1, Slice(new, prefix, new_size - suffix))
    IN  IF suffix > 0
        THEN put_copy(e2, new_size - suffix, suffix, "suffix")
        ELSE e2

\* encode_trivial_case writing all of new as one literal
encode_trivial_case_all_literal(new, prefix, suffix, es) ==
    IF Len(new) > 0 THEN put_literal(es, new) ELSE es

encode_trivial_case(new, prefix, suffix, es) ==
    LET new_size == Len(new)
        e1 == IF prefix > 0 THEN put_copy(es, 0, prefix, "prefix") ELSE es
        middle_size == new_size - prefix - suffix
        e2 == IF middle_size > 0
              THEN put_literal(e1, Slice(new, prefix, new_size - suffix))
              ELSE e1
    IN  IF suffix > 0
        THEN put_copy(e2, new_size - suffix, suffix, "suffix")
        ELSE e2

\* lines 82-86 of encode
write_suffix(es, base_size, suffix) ==
    IF suffix > 0 THEN put_copy(es, base_size - suffix, suffix, "suffix") ELSE es

\* finalize_delta with the literal data written before the instructions
finalize_delta_swapped(inst, data) ==
    LET r1 == write_varint(with_capacity, U64(Len(inst.buffer)))
        r2 == write_bytes(r1, data.buffer)
        r3 == write_bytes(r2, inst.buffer)
    IN  r3.buffer

finalize_delta(inst, data) ==
    LET r1 == write_varint(with_capacity, U64(Len(inst.buffer)))
        r2 == write_bytes(r1, inst.buffer)
        r3 == write_bytes(r2, data.buffer)
    IN  r3.buffer

\* lines 21-37 of encode: the prefix and suffix sizes in use
prefix_of(new, base) ==
    LET prefix_len == find_common_prefix(new, base)
    IN  IF prefix_len >= MIN_MATCH_LENGTH THEN prefix_len ELSE 0

\* suffix_taken without the MIN_MATCH_LENGTH test of lines 28-32
suffix_taken_any(suffix_len, prefix, new_len) ==
    IF prefix + suffix_len > new_len
    THEN (IF new_len >= prefix THEN new_len - prefix ELSE 0)
    ELSE suffix_len

\* lines 28-37: the suffix length find_common_suffix returned, as encode takes it
suffix_taken(suffix_len, prefix, new_len) ==
    LET suffix0 == IF suffix_len >= MIN_MATCH_LENGTH THEN suffix_len ELSE 0
    IN  IF prefix + suffix0 > new_len
        THEN (IF new_len >= prefix THEN new_len - prefix ELSE 0)
        ELSE suffix0

suffix_of(new, base, prefix) ==
    suffix_taken(find_common_suffix(new, base, prefix), prefix, Len(new))

(***************************************************************************)
(* The inputs the model runs on.  A pair (new, base) is a shared head      *)
(* text, two middles, and a shared tail text; or two runs of one byte.     *)
(* A middle is padding, optionally a block of WORD_SIZE + 1 bytes, and     *)
(* padding; the block sits at different offsets in different middles.      *)
(***************************************************************************)
HeadText(n) == [i \in 1..n |-> 1 + ((i * i + 3 * i) % 7)]

\* the byte at distance d from the end depends on d alone
TailText(n) == [i \in 1..n |-> 10 + (((n - i) * (n - i) + (n - i)) % 5)]

Pad(alpha, n) == [i \in 1..n |-> alpha + i]

Block == [i \in 1..(WORD_SIZE + 1) |-> 30 + i]

Mid(alpha, a, k, b) == Pad(alpha, a) \o (IF k = 1 THEN Block ELSE <<>>) \o Pad(50, b)

SharedLens == {n \in 0..MaxShared : n \in {0, WORD_SIZE + 1} \/ n >= MIN_MATCH_LENGTH - 2}

BaseMids == {Mid(20, a, k, 0) : a \in 0..MaxPad, k \in 0..1}

NewMids == {Mid(20, a, k, b) : a \in {0, MaxPad}, k \in 0..1, b \in 0..1}
             \cup {Mid(40, 1, k, 0) : k \in 0..1}

Run(n) == [i \in 1..n |-> 9]

RunLens == {0, 1, MIN_MATCH_LENGTH, MaxShared + WORD_SIZE}

EditPairs == {<<HeadText(pl) \o nm \o TailText(sl), HeadText(pl) \o bm \o TailText(sl)>> :
                 pl \in SharedLens, sl \in SharedLens, nm \in NewMids, bm \in BaseMids}

RunPairs == {<<Run(a), Run(b)>> : a \in RunLens, b \in RunLens}

InputPairs == EditPairs \cup RunPairs

(***************************************************************************)
(* The 64-bit values the varint round trip runs on: around every power of  *)
(* two, and two bit patterns.                                              *)
(***************************************************************************)
Sub1(u) == Add64(u, U64Max)

VarintValues ==
    {Shl(U64(1), k) : k \in 0..(U64Bits - 1)}
      \cup {Sub1(Shl(U64(1), k)) : k \in 0..(U64Bits - 1)}
      \cup {Add64(Shl(U64(1), k), U64(1)) : k \in 0..(U64Bits - 1)}
      \cup {U64Max, <<43690, 43690, 43690, 43690>>, <<21845, 21845, 21845, 21845>>}

NoUnit == [err |-> "none", value |-> U64Zero, bs |-> with_capacity, ovf |-> FALSE]

(***************************************************************************)
(* The units the delta-unit round trip runs on: lengths in [1, 2^UnitBits) *)
(* around every power of two, offsets in [0, 2^UnitBits) around every      *)
(* seventh, both kinds.  The fields of DeltaUnit are public, so a literal  *)
(* may carry any offset.                                                   *)
(***************************************************************************)
UnitLimit == Shl(U64(1), UnitBits)

UnitLengths ==
    {v \in {Shl(U64(1), k) : k \in 0..(UnitBits - 1)}
              \cup {Sub1(Shl(U64(1), k)) : k \in 1..UnitBits}
              \cup {Add64(Shl(U64(1), k), U64(1)) : k \in 0..(UnitBits - 1)} :
        v # U64Zero /\ Less64(v, UnitLimit)}

UnitOffsets ==
    {Shl(U64(1), k) : k \in {j \in 0..(UnitBits - 1) : j % VARINT_BITS = 0}}
      \cup {Sub1(Shl(U64(1), k)) : k \in {j \in 0..UnitBits : j % VARINT_BITS = 0}}
      \cup {Sub1(UnitLimit)}

UnitValues ==
    {[is_copy |-> c, length |-> l, offset |-> o] :
        c \in BOOLEAN, l \in UnitLengths, o \in UnitOffsets}

(***************************************************************************)
(* Initial states.                                                         *)
(***************************************************************************)
Idle ==
    /\ prefix_size = 0 /\ suffix_size = 0
    /\ instruction_stream = with_capacity
    /\ data_stream = with_capacity
    /\ units = <<>>
    /\ hash_table = <<>> /\ hash_shift = 0
    /\ pos = 0 /\ literal_start = 0 /\ fingerprint = U64Zero
    /\ delta = <<>>
    /\ delta_stream = with_capacity /\ inst_end = 0
    /\ lit_stream = with_capacity /\ output = with_capacity
    /\ result = "none"
    /\ overflow_checks = "any"
    /\ calls = <<>>

VarintIdle ==
    /\ vval = U64Zero /\ vbuf = with_capacity /\ vread = NoUnit /\ vpc = "off"

Init ==
    /\ \E p \in InputPairs : new_data = p[1] /\ base_data = p[2]
    /\ gear \in GearTables
    /\ pc = "start"
    /\ Idle
    /\ VarintIdle

(***************************************************************************)
(* encode (delta.rs 17-89), up to the first iteration of the scan.         *)
(***************************************************************************)
new_size == Len(new_data)

base_size == Len(base_data)

\* end and base_end of encode_middle_section
new_mid_end == new_size - suffix_size

base_mid_end == base_size - suffix_size

Finish(es) ==
    /\ instruction_stream' = es.inst
    /\ data_stream' = es.data
    /\ units' = es.units
    /\ delta' = finalize_delta(es.inst, es.data)
    /\ pc' = "encoded"

DecodeIdle ==
    UNCHANGED <<delta_stream, inst_end, lit_stream, output, result, overflow_checks>>

VarintUnchanged == UNCHANGED <<vval, vbuf, vread, vpc>>

EncodeBegin ==
    /\ pc = "start"
    /\ LET prefix == prefix_of(new_data, base_data)
           suffix == suffix_of(new_data, base_data, prefix)
           start == prefix
           end == new_size - suffix
           work_base_size == base_size - prefix - suffix
           hash_bits == calculate_hash_bits(U64(work_base_size))
           e1 == IF prefix >= MIN_MATCH_LENGTH
                 THEN put_copy(NoOutput, 0, prefix, "prefix")
                 ELSE NoOutput
       IN  /\ prefix_size' = prefix
           /\ suffix_size' = suffix
           /\ IF prefix + suffix >= base_size
              THEN \* the trivial case: lines 44-55
                   /\ Finish(encode_trivial_case(new_data, prefix, suffix, NoOutput))
                   /\ UNCHANGED <<hash_table, hash_shift, pos, literal_start, fingerprint>>
              ELSE /\ hash_table' = build_hash_table(base_data, prefix,
                                                     base_size - suffix, hash_bits)
                   /\ hash_shift' = U64Bits - hash_bits
                   /\ IF start >= end \/ end - start < WORD_SIZE
                      THEN \* lines 233-241, then 82-88
                           /\ Finish(write_suffix(
                                  IF start < end
                                  THEN put_literal(e1, Slice(new_data, start, end))
                                  ELSE e1,
                                  base_size, suffix))
                           /\ UNCHANGED <<pos, literal_start, fingerprint>>
                      ELSE /\ pos' = start
                           /\ literal_start' = start
                           /\ fingerprint' = compute_fingerprint(new_data, start)
                           /\ instruction_stream' = e1.inst
                           /\ data_stream' = e1.data
                           /\ units' = e1.units
                           /\ pc' = "scan"
                           /\ UNCHANGED delta
    /\ UNCHANGED <<new_data, base_data, gear>>
    /\ DecodeIdle
    /\ VarintUnchanged
    /\ UNCHANGED calls

(***************************************************************************)
(* One iteration of the scan (delta.rs 247-288).                           *)
(***************************************************************************)
base_offset == hash_table[hash_index(fingerprint, hash_shift)]

\* the test of lines 253-255 without the comparison of the bytes
IsMatchByHash ==
    /\ base_offset > 0
    /\ base_offset + WORD_SIZE <= base_mid_end

IsMatch ==
    /\ base_offset > 0
    /\ base_offset + WORD_SIZE <= base_mid_end
    /\ Slice(new_data, pos, pos + WORD_SIZE)
         = Slice(base_data, base_offset, base_offset + WORD_SIZE)

Streams == [inst |-> instruction_stream, data |-> data_stream, units |-> units]

\* the match iteration writing the Copy unit before the pending literal
ScanMatchCopyFirst ==
    /\ pc = "scan"
    /\ pos + WORD_SIZE <= new_mid_end
    /\ IsMatch
    /\ LET match_len == extend_match(new_data, base_data, pos, base_offset,
                                     new_mid_end, base_mid_end)
           e1 == put_copy(Streams, base_offset, match_len, "match")
           e2 == IF pos > literal_start
                 THEN put_literal(e1, Slice(new_data, literal_start, pos))
                 ELSE e1
       IN  /\ instruction_stream' = e2.inst
           /\ data_stream' = e2.data
           /\ units' = e2.units
           /\ pos' = pos + match_len
           /\ literal_start' = pos + match_len
           /\ fingerprint' = IF pos + match_len + WORD_SIZE <= new_mid_end
                             THEN compute_fingerprint(new_data, pos + match_len)
                             ELSE fingerprint
    /\ UNCHANGED <<new_data, base_data, gear, pc, prefix_size, suffix_size,
                   hash_table, hash_shift, delta>>
    /\ DecodeIdle
    /\ VarintUnchanged
    /\ UNCHANGED calls

ScanMatch ==
    /\ pc = "scan"
    /\ pos + WORD_SIZE <= new_mid_end
    /\ IsMatch
    /\ LET match_len == extend_match(new_data, base_data, pos, base_offset,
                                     new_mid_end, base_mid_end)
           e1 == IF pos > literal_start
                 THEN put_literal(Streams, Slice(new_data, literal_start, pos))
                 ELSE Streams
           e2 == put_copy(e1, base_offset, match_len, "match")
       IN  /\ instruction_stream' = e2.inst
           /\ data_stream' = e2.data
           /\ units' = e2.units
           /\ pos' = pos + match_len
           /\ literal_start' = pos + match_len
           /\ fingerprint' = IF pos + match_len + WORD_SIZE <= new_mid_end
                             THEN compute_fingerprint(new_data, pos + match_len)
                             ELSE fingerprint
    /\ UNCHANGED <<new_data, base_data, gear, pc, prefix_size, suffix_size,
                   hash_table, hash_shift, delta>>
    /\ DecodeIdle
    /\ VarintUnchanged
    /\ UNCHANGED calls

ScanMiss ==
    /\ pc = "scan"
    /\ pos + WORD_SIZE <= new_mid_end
    /\ ~IsMatch
    /\ pos' = pos + 1
    /\ fingerprint' = IF pos + 1 + WORD_SIZE <= new_mid_end
                      THEN roll_fingerprint(fingerprint, At(new_data, pos + WORD_SIZE))
                      ELSE fingerprint
    /\ UNCHANGED <<new_data, base_data, gear, pc, prefix_size, suffix_size,
                   instruction_stream, data_stream, units, hash_table, hash_shift,
                   literal_start, delta>>
    /\ DecodeIdle
    /\ VarintUnchanged
    /\ UNCHANGED calls

\* after the loop: the final literal (290-296), the suffix copy and the blob (82-88)
ScanEnd ==
    /\ pc = "scan"
    /\ pos + WORD_SIZE > new_mid_end
    /\ Finish(write_suffix(
           IF literal_start < new_mid_end
           THEN put_literal(Streams, Slice(new_data, literal_start, new_mid_end))
           ELSE Streams,
           base_size, suffix_size))
    /\ UNCHANGED <<new_data, base_data, gear, prefix_size, suffix_size,
                   hash_table, hash_shift, pos, literal_start, fingerprint>>
    /\ DecodeIdle
    /\ VarintUnchanged
    /\ UNCHANGED calls

(***************************************************************************)
(* decode (delta.rs 381-430).  An integer operation that leaves its range  *)
(* panics in a build with overflow checks and wraps in one without (the    *)
(* release profile).  Each step is computed with wrapped values, recording *)
(* whether an operation overflowed on the way; overflow_checks is "any"    *)
(* until the first overflow, where the run splits into the build that      *)
(* panics ("on") and the build that goes on with the wrapped value ("off").*)
(* A panic ends the run with the result "Panic".                           *)
(***************************************************************************)
EncodeUnchanged ==
    UNCHANGED <<new_data, base_data, gear, prefix_size, suffix_size,
                instruction_stream, data_stream, units, hash_table, hash_shift,
                pos, literal_start, fingerprint, delta>>

Fail(kind) ==
    /\ result' = kind
    /\ pc' = "decoded"

\* Take with the loop reading every unit from where it read the first
Take_rewound(o) ==
    /\ delta_stream' = (IF pc = "decoding" THEN delta_stream ELSE o.delta_stream)
    /\ inst_end' = o.inst_end
    /\ lit_stream' = o.lit_stream
    /\ output' = o.output
    /\ pc' = o.pc
    /\ result' = o.result

\* decode's locals and position after a step
Take(o) ==
    /\ delta_stream' = o.delta_stream
    /\ inst_end' = o.inst_end
    /\ lit_stream' = o.lit_stream
    /\ output' = o.output
    /\ pc' = o.pc
    /\ result' = o.result

\* a step whose wrapped outcome is o, in the build in use
Resolve(o) ==
    IF o.ovf
    THEN \/ /\ overflow_checks # "off"
            /\ overflow_checks' = "on"
            /\ Fail("Panic")
            /\ UNCHANGED <<delta_stream, inst_end, lit_stream, output>>
         \/ /\ overflow_checks # "on"
            /\ overflow_checks' = "off"
            /\ Take(o)
    ELSE Take(o) /\ UNCHANGED overflow_checks

\* decode returning Err(kind) with the delta stream at ds
Stop(ds, kind, ovf) ==
    [delta_stream |-> ds, inst_end |-> inst_end, lit_stream |-> lit_stream,
     output |-> output, pc |-> "decoded", result |-> kind, ovf |-> ovf]

\* decode_begin without the test of lines 389-393
decode_begin_unchecked ==
    LET r == read_varint(from_slice(delta))
        end64 == Add64(U64(r.bs.cursor), r.value)
        ovf == r.ovf \/ AddOverflows(U64(r.bs.cursor), r.value)
    IN  IF r.err # "none" THEN Stop(r.bs, r.err, r.ovf)
        ELSE [delta_stream |-> r.bs,
              inst_end |-> ToNat(end64),
              lit_stream |-> from_slice(Slice(delta, ToNat(end64), Len(delta))),
              output |-> with_capacity,
              pc |-> "decoding", result |-> result, ovf |-> ovf]

\* lines 382-401
decode_begin ==
    LET r == read_varint(from_slice(delta))
        instruction_len == r.value
        inst_start == r.bs.cursor
        end64 == Add64(U64(inst_start), instruction_len)
        ovf == r.ovf \/ AddOverflows(U64(inst_start), instruction_len)
    IN  IF r.err # "none" THEN Stop(r.bs, r.err, r.ovf)
        ELSE IF Less64(U64(Len(delta)), end64) THEN Stop(r.bs, "InvalidDelta", ovf)
        ELSE [delta_stream |-> r.bs,
              inst_end |-> ToNat(end64),
              lit_stream |-> from_slice(Slice(delta, ToNat(end64), Len(delta))),
              output |-> with_capacity,
              pc |-> "decoding", result |-> result, ovf |-> ovf]

DecodeBegin ==
    /\ pc = "encoded"
    /\ Resolve(decode_begin)
    /\ EncodeUnchanged
    /\ VarintUnchanged
    /\ UNCHANGED calls

\* output.copy_from(&base_stream, offset, length)
copy_from(out, other, position, len) ==
    LET data == peek_at(other, position, len)
    IN  IF data.err # "none" THEN [err |-> data.err, bs |-> out, ovf |-> data.ovf]
        ELSE [err |-> "none", bs |-> write_bytes(out, data.value), ovf |-> data.ovf]

\* append_from_cursor taking the bytes there are when fewer than len are left
append_from_cursor_lenient(out, other, len) ==
    LET have == Len(other.buffer) - other.cursor
        data == read_bytes(other, IF Less64(U64(have), len) THEN U64(have) ELSE len)
    IN  [err |-> "none", bs |-> write_bytes(out, data.value), other |-> data.bs,
         ovf |-> data.ovf]

\* output.append_from_cursor(&mut data_stream, length)
append_from_cursor(out, other, len) ==
    LET data == read_bytes(other, len)
    IN  IF data.err # "none"
        THEN [err |-> data.err, bs |-> out, other |-> data.bs, ovf |-> data.ovf]
        ELSE [err |-> "none", bs |-> write_bytes(out, data.value), other |-> data.bs,
              ovf |-> data.ovf]

\* one iteration of the loop of lines 404-427
decode_unit ==
    LET r == read_delta_unit(delta_stream)
        offset == r.unit.offset
        length == r.unit.length
        go(out, lit, err, ovf) ==
            [delta_stream |-> r.bs, inst_end |-> inst_end, lit_stream |-> lit,
             output |-> out,
             pc |-> IF err = "none" THEN "decoding" ELSE "decoded",
             result |-> IF err = "none" THEN result ELSE err,
             ovf |-> ovf]
    IN  IF r.err # "none" THEN Stop(r.bs, r.err, r.ovf)
        ELSE IF r.unit.is_copy
        THEN IF Less64(U64(base_size), Add64(offset, length))
             THEN Stop(r.bs, "InvalidDelta", r.ovf \/ AddOverflows(offset, length))
             ELSE LET c == copy_from(output, from_slice(base_data), offset, length)
                  IN  go(c.bs, lit_stream, c.err,
                         r.ovf \/ AddOverflows(offset, length) \/ c.ovf)
        ELSE LET a == append_from_cursor(output, lit_stream, length)
             IN  go(a.bs, a.other, a.err, r.ovf \/ a.ovf)

DecodeUnit ==
    /\ pc = "decoding"
    /\ delta_stream.cursor < inst_end
    /\ Resolve(decode_unit)
    /\ EncodeUnchanged
    /\ VarintUnchanged
    /\ UNCHANGED calls

\* line 429
DecodeEnd ==
    /\ pc = "decoding"
    /\ delta_stream.cursor >= inst_end
    /\ result' = "Ok"
    /\ pc' = "decoded"
    /\ UNCHANGED <<delta_stream, inst_end, lit_stream, output, overflow_checks>>
    /\ EncodeUnchanged
    /\ VarintUnchanged
    /\ UNCHANGED calls

Next ==
    \/ EncodeBegin
    \/ ScanMatch
    \/ ScanMiss
    \/ ScanEnd
    \/ DecodeBegin
    \/ DecodeUnit
    \/ DecodeEnd

Spec == Init /\ [][Next]_vars

(***************************************************************************)
(* encode, the last byte of the blob removed, decode: the runs of Spec,    *)
(* and those in which the blob loses its last byte before decode starts.   *)
(***************************************************************************)
\* the blob encode returned
full_delta == finalize_delta(instruction_stream, data_stream)

Truncate ==
    /\ pc = "encoded"
    /\ delta = full_delta
    /\ delta' = Slice(delta, 0, Len(delta) - 1)
    /\ UNCHANGED <<new_data, base_data, gear, pc, prefix_size, suffix_size,
                   instruction_stream, data_stream, units, hash_table, hash_shift,
                   pos, literal_start, fingerprint>>
    /\ DecodeIdle
    /\ VarintUnchanged
    /\ UNCHANGED calls

NextTruncated ==
    \/ EncodeBegin
    \/ ScanMatch
    \/ ScanMiss
    \/ ScanEnd
    \/ Truncate
    \/ DecodeBegin
    \/ DecodeUnit
    \/ DecodeEnd

SpecTruncated == Init /\ [][NextTruncated]_vars

(***************************************************************************)
(* encode, the blob cut to one of its strict prefixes, decode.             *)
(***************************************************************************)
Cut ==
    /\ pc = "encoded"
    /\ delta = full_delta
    /\ \E n \in 0..(Len(delta) - 1) : delta' = Slice(delta, 0, n)
    /\ UNCHANGED <<new_data, base_data, gear, pc, prefix_size, suffix_size,
                   instruction_stream, data_stream, units, hash_table, hash_shift,
                   pos, literal_start, fingerprint>>
    /\ DecodeIdle
    /\ VarintUnchanged
    /\ UNCHANGED calls

NextCut ==
    \/ EncodeBegin
    \/ ScanMatch
    \/ ScanMiss
    \/ ScanEnd
    \/ Cut
    \/ DecodeBegin
    \/ DecodeUnit
    \/ DecodeEnd

SpecCut == Init /\ [][NextCut]_vars

(***************************************************************************)
(* Calls in a row: up to MaxCalls encode calls, each on a pair of          *)
(* CallPairs, with or without a decode of the blob after each.  The        *)
(* model's variables keep what the call before left in them; calls logs    *)
(* the inputs and the blob of every call that returned.                    *)
(***************************************************************************)
CallPairs ==
    {<<HeadText(pl) \o nm, HeadText(pl) \o bm>> :
        pl \in {0, MIN_MATCH_LENGTH},
        nm \in {Mid(20, 0, 1, 0), Mid(40, 1, 1, 0)},
        bm \in {Mid(20, MaxPad, 1, 0), Mid(20, 0, 0, 0)}}
      \cup {<<Run(MIN_MATCH_LENGTH), Run(MIN_MATCH_LENGTH)>>, <<Run(1), Run(0)>>}

InitCalls ==
    /\ \E p \in CallPairs : new_data = p[1] /\ base_data = p[2]
    /\ gear \in GearTables
    /\ pc = "start"
    /\ Idle
    /\ VarintIdle

\* the next call of encode, after encode or decode has returned
CallAgain ==
    /\ pc \in {"encoded", "decoded"}
    /\ Len(calls) < MaxCalls - 1
    /\ calls' = Append(calls, [new |-> new_data, base |-> base_data, delta |-> delta])
    /\ \E p \in CallPairs : new_data' = p[1] /\ base_data' = p[2]
    /\ pc' = "start"
    /\ UNCHANGED <<gear, prefix_size, suffix_size, instruction_stream, data_stream,
                   units, hash_table, hash_shift, pos, literal_start, fingerprint,
                   delta>>
    /\ DecodeIdle
    /\ VarintUnchanged

NextCalls ==
    \/ EncodeBegin
    \/ ScanMatch
    \/ ScanMiss
    \/ ScanEnd
    \/ DecodeBegin
    \/ DecodeUnit
    \/ DecodeEnd
    \/ CallAgain

SpecCalls == InitCalls /\ [][NextCalls]_vars

(***************************************************************************)
(* decode on deltas put together by hand (the layout of finalize_delta,    *)
(* delta.rs 364-377): the varint of an announced length, the encodings of  *)
(* a list of units, literal bytes.  units, instruction_stream and          *)
(* data_stream hold what the blob was made of, the fields of the units     *)
(* being u64 here.  Three families: announced lengths up to u64::MAX over  *)
(* a few bodies; a copy with offset and length over the 64-bit edge values *)
(* after an optional first unit, the announced length exact; a literal     *)
(* with its length over the edge values, likewise; short units             *)
(* with the announced length anywhere from 0 to one past their encoding.   *)
(***************************************************************************)
RECURSIVE write_units(_, _)
write_units(bs, us) ==
    IF us = <<>> THEN bs
    ELSE write_units(write_delta_unit(bs, Head(us)), Tail(us))

hand_delta(len, inst, data) ==
    write_bytes(write_bytes(write_varint(with_capacity, len), inst), data).buffer

EdgeValues ==
    {U64(n) : n \in 0..4}
      \cup {Shl(U64(1), U64Bits \div 2), Shl(U64(1), U64Bits - 1), Sub1(U64Max), U64Max}

AnnouncedLengths ==
    {U64(n) : n \in 0..6}
      \cup {U64(Pow2(VARINT_BITS) - 1), U64(Pow2(VARINT_BITS)),
            Shl(U64(1), U64Bits \div 2), Shl(U64(1), U64Bits - 1)}
      \cup {<<Limb - 1 - k, Limb - 1, Limb - 1, Limb - 1>> : k \in 0..11}

HandData == {<<>>, <<65>>, <<65, 66>>}

HandUnits ==
    {literal(U64(1)), literal(U64(2)), literal(U64(Pow2(HEAD_VARINT_BITS))),
     copy(U64(0), U64(1)), copy(U64(1), U64(2))}

UnitLists == UNION {[1..k -> HandUnits] : k \in 1..MaxUnits}

inst_bytes(us) == write_units(with_capacity, us).buffer

LengthFamily ==
    {[units |-> us, len |-> l, data |-> d] :
        us \in {<<>>, <<literal(U64(1))>>, <<copy(U64(0), U64(1)), literal(U64(2))>>},
        l \in AnnouncedLengths, d \in HandData}

CopyFamily ==
    {[units |-> first \o <<copy(o, l)>>,
      len |-> U64(Len(inst_bytes(first \o <<copy(o, l)>>))),
      data |-> <<65>>] :
        first \in {<<>>, <<literal(U64(1))>>, <<copy(U64(0), U64(1))>>},
        o \in EdgeValues, l \in EdgeValues}

OverrunFamily ==
    UNION {{[units |-> us, len |-> U64(n), data |-> d] :
               n \in 0..(Len(inst_bytes(us)) + 1), d \in HandData} : us \in UnitLists}

LiteralFamily ==
    {[units |-> first \o <<literal(l)>>,
      len |-> U64(Len(inst_bytes(first \o <<literal(l)>>))),
      data |-> d] :
        first \in {<<>>, <<literal(U64(1))>>, <<copy(U64(0), U64(1))>>},
        l \in EdgeValues, d \in HandData}

HandMade == LengthFamily \cup CopyFamily \cup LiteralFamily \cup OverrunFamily

InitDecode ==
    /\ \E h \in HandMade :
          /\ units = h.units
          /\ instruction_stream = write_units(with_capacity, h.units)
          /\ data_stream = write_bytes(with_capacity, h.data)
          /\ delta = hand_delta(h.len, inst_bytes(h.units), h.data)
    /\ base_data \in {<<>>, <<7>>, <<7, 8, 9>>}
    /\ new_data = <<>> /\ gear = 1
    /\ pc = "encoded"
    /\ prefix_size = 0 /\ suffix_size = 0
    /\ hash_table = <<>> /\ hash_shift = 0
    /\ pos = 0 /\ literal_start = 0 /\ fingerprint = U64Zero
    /\ delta_stream = with_capacity /\ inst_end = 0
    /\ lit_stream = with_capacity /\ output = with_capacity
    /\ result = "none"
    /\ overflow_checks = "any"
    /\ calls = <<>>
    /\ VarintIdle

NextDecode ==
    \/ DecodeBegin
    \/ DecodeUnit
    \/ DecodeEnd

SpecDecode == InitDecode /\ [][NextDecode]_vars

(***************************************************************************)
(* encode and decode on every input of the model: the runs of Spec, and    *)
(* decode on the deltas put together by hand.                              *)
(***************************************************************************)
SpecAll == (Init \/ InitDecode) /\ [][Next]_vars

(***************************************************************************)
(* The varint round trip (varint.rs 26-84, as in test_varint_encoding):    *)
(* write a value to an empty stream, rewind, read.                         *)
(***************************************************************************)
CodecIdle ==
    /\ new_data = <<>> /\ base_data = <<>> /\ gear = 1 /\ pc = "off"
    /\ Idle

\* encode's and decode's variables stay as they are
CodecFixed ==
    UNCHANGED <<new_data, base_data, gear, pc, prefix_size, suffix_size,
                instruction_stream, data_stream, units, hash_table, hash_shift,
                pos, literal_start, fingerprint, delta, delta_stream, inst_end,
                lit_stream, output, result, calls>>

CodecUnchanged == CodecFixed /\ UNCHANGED overflow_checks

InitVarint ==
    /\ CodecIdle
    /\ vval \in VarintValues
    /\ vbuf = with_capacity
    /\ vread = NoUnit
    /\ vpc = "write"

VarintWrite ==
    /\ vpc = "write"
    /\ vbuf' = write_varint(vbuf, vval)
    /\ vpc' = "rewind"
    /\ UNCHANGED <<vval, vread>>
    /\ CodecUnchanged

VarintRewind ==
    /\ vpc = "rewind"
    /\ vbuf' = set_position(vbuf, 0)
    /\ vpc' = "read"
    /\ UNCHANGED <<vval, vread>>
    /\ CodecUnchanged

VarintRead ==
    /\ vpc = "read"
    /\ vread' = read_varint(vbuf)
    /\ vbuf' = vread'.bs
    /\ vpc' = "done"
    /\ UNCHANGED vval
    /\ CodecUnchanged

NextVarint ==
    \/ VarintWrite
    \/ VarintRewind
    \/ VarintRead

SpecVarint == InitVarint /\ [][NextVarint]_vars

(***************************************************************************)
(* The byte stream on its own (buffer.rs): any sequence of write_u8,       *)
(* write_bytes, set_position, read_u8, read_bytes and peek_at on a stream  *)
(* of at most MaxStream bytes, lengths and positions ranging up to         *)
(* usize::MAX.  vbuf is the stream, vread the last call: the operation,    *)
(* its arguments, the stream before it and what it returned.  A panic ends *)
(* the run.                                                                *)
(***************************************************************************)
StreamLengths == {U64(k) : k \in 0..(MaxStream + 1)} \cup {Sub1(U64Max), U64Max}

NoCall ==
    [op |-> "none", n |-> U64Zero, position |-> U64Zero, before |-> with_capacity,
     err |-> "none", value |-> <<>>, ovf |-> FALSE]

InitStream ==
    /\ CodecIdle
    /\ vval = U64Zero
    /\ vbuf \in {with_capacity, from_slice(<<1, 2, 3>>)}
    /\ vread = NoCall
    /\ vpc = "stream"

\* the call r, leaving the stream as after, in the build in use
StreamStep(r, after) ==
    /\ IF r.ovf
       THEN \/ /\ overflow_checks # "off"
               /\ overflow_checks' = "on"
               /\ vread' = [r EXCEPT !.err = "Panic"]
               /\ vbuf' = vbuf
            \/ /\ overflow_checks # "on"
               /\ overflow_checks' = "off"
               /\ vread' = r
               /\ vbuf' = after
       ELSE /\ vread' = r
            /\ vbuf' = after
            /\ UNCHANGED overflow_checks
    /\ vpc' = IF vread'.err = "Panic" THEN "panicked" ELSE "stream"
    /\ UNCHANGED vval
    /\ CodecFixed

StreamWriteU8 ==
    /\ vpc = "stream"
    /\ Len(vbuf.buffer) < MaxStream
    /\ \E b \in {1, 2} :
          StreamStep([NoCall EXCEPT !.op = "write_u8", !.before = vbuf],
                     write_u8(vbuf, b))

StreamWriteBytes ==
    /\ vpc = "stream"
    /\ \E data \in {<<>>, <<1, 2>>} :
          /\ Len(vbuf.buffer) + Len(data) <= MaxStream
          /\ StreamStep([NoCall EXCEPT !.op = "write_bytes", !.before = vbuf],
                        write_bytes(vbuf, data))

StreamSetPosition ==
    /\ vpc = "stream"
    /\ \E p \in 0..(MaxStream + 1) :
          StreamStep([NoCall EXCEPT !.op = "set_position", !.before = vbuf],
                     set_position(vbuf, p))

StreamReadU8 ==
    /\ vpc = "stream"
    /\ LET r == read_u8(vbuf)
       IN  StreamStep([NoCall EXCEPT !.op = "read_u8", !.n = U64(1), !.before = vbuf,
                                    !.err = r.err, !.value = <<r.value>>],
                      r.bs)

StreamReadBytes ==
    /\ vpc = "stream"
    /\ \E n \in StreamLengths :
          LET r == read_bytes(vbuf, n)
          IN  StreamStep([NoCall EXCEPT !.op = "read_bytes", !.n = n, !.before = vbuf,
                                       !.err = r.err, !.value = r.value, !.ovf = r.ovf],
                         r.bs)

StreamPeekAt ==
    /\ vpc = "stream"
    /\ \E p \in StreamLengths, n \in StreamLengths :
          LET r == peek_at(vbuf, p, n)
          IN  StreamStep([NoCall EXCEPT !.op = "peek_at", !.n = n, !.position = p,
                                       !.before = vbuf, !.err = r.err,
                                       !.value = r.value, !.ovf = r.ovf],
                         vbuf)

NextStream ==
    \/ StreamWriteU8
    \/ StreamWriteBytes
    \/ StreamSetPosition
    \/ StreamReadU8
    \/ StreamReadBytes
    \/ StreamPeekAt

SpecStream == InitStream /\ [][NextStream]_vars

(***************************************************************************)
(* The sizing of the hash table (delta.rs 177-185) on region lengths below *)
(* 2^HashRangeBits: the small ones, and those that bring size + 10 to a    *)
(* power of two, one less and one more.                                    *)
(***************************************************************************)
\* u - n for a small n, wrapping
Sub64(u, n) == Add64(u, <<Limb - n, Limb - 1, Limb - 1, Limb - 1>>)

HashSizes ==
    {v \in {U64(n) : n \in 0..40}
              \cup {Sub64(Shl(U64(1), k), d) : k \in 6..(HashRangeBits + 1), d \in 9..11} :
        Less64(v, Shl(U64(1), HashRangeBits))}

InitHashBits ==
    /\ CodecIdle
    /\ vval \in HashSizes
    /\ vbuf = with_capacity
    /\ vread = 0
    /\ vpc = "size"

HashBitsCall ==
    /\ vpc = "size"
    /\ vread' = calculate_hash_bits(vval)
    /\ vpc' = "sized"
    /\ UNCHANGED <<vval, vbuf>>
    /\ CodecUnchanged

SpecHashBits == InitHashBits /\ [][HashBitsCall]_vars

(***************************************************************************)
(* The delta-unit round trip (varint.rs 124-166, as in                     *)
(* test_delta_unit_copy): write a unit to an empty stream, rewind, read.   *)
(***************************************************************************)
InitUnit ==
    /\ CodecIdle
    /\ vval \in UnitValues
    /\ vbuf = with_capacity
    /\ vread = NoUnit
    /\ vpc = "write_unit"

UnitWrite ==
    /\ vpc = "write_unit"
    /\ vbuf' = write_delta_unit(vbuf, vval)
    /\ vpc' = "rewind_unit"
    /\ UNCHANGED <<vval, vread>>
    /\ CodecUnchanged

UnitRewind ==
    /\ vpc = "rewind_unit"
    /\ vbuf' = set_position(vbuf, 0)
    /\ vpc' = "read_unit"
    /\ UNCHANGED <<vval, vread>>
    /\ CodecUnchanged

UnitRead ==
    /\ vpc = "read_unit"
    /\ vread' = read_delta_unit(vbuf)
    /\ vbuf' = vread'.bs
    /\ vpc' = "unit_done"
    /\ UNCHANGED vval
    /\ CodecUnchanged

NextUnit ==
    \/ UnitWrite
    \/ UnitRewind
    \/ UnitRead

SpecUnit == InitUnit /\ [][NextUnit]_vars

(***************************************************************************)
(* The chunked comparisons on their own (delta.rs 130-174 and 300-361), in *)
(* the build with the simd feature and in the build without it.            *)
(* extend_match runs on a verified match of up to MaxMatch bytes that ends *)
(* at a differing byte or at the end of either region; find_common_suffix  *)
(* runs on pairs with a shared tail of up to MaxMatch bytes behind the     *)
(* prefix encode has chosen.  vval is the input, vread the value returned. *)
(***************************************************************************)
MatchText(n) == [i \in 1..n |-> 1 + ((i * i + 5 * i) % 9)]

MatchInputs ==
    LET tails == {<<>>, <<93>>, <<94>>, <<93, 93>>}
    IN
    {m \in {[new |-> <<90>> \o MatchText(l) \o nt,
             base |-> <<91, 92>> \o MatchText(l) \o bt,
             new_pos |-> 1, base_pos |-> 2,
             new_end |-> 1 + l + Len(nt) - dn,
             base_end |-> 2 + l + Len(bt) - db,
             simd |-> simd] :
                l \in WORD_SIZE..MaxMatch, nt \in tails, bt \in tails,
                dn \in 0..1, db \in 0..1, simd \in BOOLEAN} :
        /\ m.new_pos + WORD_SIZE <= m.new_end
        /\ m.base_pos + WORD_SIZE <= m.base_end}

SuffixInputs ==
    {[new |-> p[1], base |-> p[2], prefix_len |-> prefix_of(p[1], p[2]), simd |-> simd] :
        p \in {<<HeadText(pl) \o nm \o TailText(sl), HeadText(pl) \o bm \o TailText(sl)>> :
                  pl \in {0, MIN_MATCH_LENGTH - 1, MIN_MATCH_LENGTH, MIN_MATCH_LENGTH + 4},
                  sl \in 0..MaxMatch,
                  nm \in {<<>>, <<20>>, <<21, 22>>},
                  bm \in {<<>>, <<20>>, <<23>>}}
              \cup {<<Run(a), Run(b)>> :
                       a \in {0, WORD_SIZE - 1, MIN_MATCH_LENGTH, MaxMatch},
                       b \in {0, MIN_MATCH_LENGTH + 1, MaxMatch - 1}},
        simd \in BOOLEAN}

InitChunks ==
    /\ CodecIdle
    /\ \/ vval \in MatchInputs /\ vpc = "extend"
       \/ vval \in SuffixInputs /\ vpc = "suffix"
    /\ vbuf = with_capacity
    /\ vread = 0

ExtendCall ==
    /\ vpc = "extend"
    /\ vread' = extend_match_built(vval.new, vval.base, vval.new_pos, vval.base_pos,
                                   vval.new_end, vval.base_end, vval.simd)
    /\ vpc' = "extended"
    /\ UNCHANGED <<vval, vbuf>>
    /\ CodecUnchanged

\* find_common_suffix, and what encode makes of its result (lines 26-37)
SuffixCall ==
    /\ vpc = "suffix"
    /\ LET suffix_len == find_common_suffix_built(vval.new, vval.base, vval.prefix_len,
                                                  vval.simd)
       IN  vread' = [suffix_len |-> suffix_len,
                     suffix_size |-> suffix_taken(suffix_len, vval.prefix_len,
                                                  Len(vval.new))]
    /\ vpc' = "suffixed"
    /\ UNCHANGED <<vval, vbuf>>
    /\ CodecUnchanged

NextChunks ==
    \/ ExtendCall
    \/ SuffixCall

SpecChunks == InitChunks /\ [][NextChunks]_vars

(***************************************************************************)
(* Properties.                                                             *)
(***************************************************************************)
\* encode has returned
Encoded == pc \in {"encoded", "decoding", "decoded"}

RECURSIVE SumLengths(_, _)
\* the sum of the length fields of the first n units
SumLengths(us, n) == IF n = 0 THEN 0 ELSE us[n].length + SumLengths(us, n - 1)

RECURSIVE SumLiterals(_, _)
\* the sum of the length fields of the Literal units among the first n
SumLiterals(us, n) ==
    IF n = 0 THEN 0
    ELSE (IF us[n].is_copy THEN 0 ELSE us[n].length) + SumLiterals(us, n - 1)

\* the byte-precise longest common prefix of two blobs, by its definition
CommonPrefixLen(a, b) ==
    CHOOSE p \in 0..Min(Len(a), Len(b)) :
        /\ \A i \in 1..p : a[i] = b[i]
        /\ p < Min(Len(a), Len(b)) => a[p + 1] # b[p + 1]

\* the byte-precise longest common suffix of two blobs, by its definition
CommonSuffixLen(a, b) ==
    CHOOSE q \in 0..Min(Len(a), Len(b)) :
        /\ \A i \in 0..(q - 1) : a[Len(a) - i] = b[Len(b) - i]
        /\ q < Min(Len(a), Len(b)) => a[Len(a) - q] # b[Len(b) - q]

HasRole(r) == \E i \in 1..Len(units) : units[i].role = r

\* C1: round trip: decode(encode(new, base), base) returns Ok with exactly the
\* bytes of new, for every pair (new, base).
RoundTrip ==
    pc = "decoded" => result = "Ok" /\ output.buffer = new_data

\* C2: every Copy unit encode writes satisfies offset + length <= base_length.
CopyWithinBase ==
    \A i \in 1..Len(units) :
        units[i].is_copy => units[i].offset + units[i].length <= base_size

\* C3: the dedicated suffix copy is Copy(base_len - s, s): its offset is derived
\* from the base length, on the trivial path as on the middle-scan path.
SuffixCopyFromBase ==
    \A i \in 1..Len(units) :
        units[i].role = "suffix" =>
            /\ units[i].length = suffix_size
            /\ units[i].offset = base_size - suffix_size

\* C4: once encode has returned, the length fields of all units sum to the
\* length of new, and the literal-data stream is as long as the Literal units
\* say.
LengthsSumToNew ==
    Encoded =>
        /\ SumLengths(units, Len(units)) = new_size
        /\ Len(data_stream.buffer) = SumLiterals(units, Len(units))

LengthsSumToNewWitness ==
    /\ pc = "encoded"
    /\ HasRole("prefix") /\ HasRole("literal") /\ HasRole("match") /\ HasRole("suffix")

\* C5: every unit encode writes has length >= 1.
NoEmptyUnit ==
    \A i \in 1..Len(units) : units[i].length >= 1

\* encode has returned on the trivial path with nothing between prefix and suffix
NoEmptyUnitWitness ==
    /\ pc = "encoded"
    /\ prefix_size + suffix_size >= base_size
    /\ new_size = prefix_size + suffix_size
    /\ Len(units) >= 1

\* C6: the instruction stream never holds two consecutive Literal units.
NoAdjacentLiterals ==
    \A i \in 1..(Len(units) - 1) : units[i].is_copy \/ units[i + 1].is_copy

\* a scan that flushed a pending literal before a match and ended with a literal
NoAdjacentLiteralsWitness ==
    /\ pc = "encoded"
    /\ Len(units) >= 3
    /\ ~units[Len(units)].is_copy
    /\ \E i \in 1..(Len(units) - 1) : ~units[i].is_copy /\ units[i + 1].role = "match"

\* C7: identity: encode(data, data) decodes back to data, and the delta is at
\* most 20 bytes long whatever the length of data.
IdentitySmall ==
    new_data = base_data =>
        /\ Encoded => Len(delta) <= 20
        /\ pc = "decoded" => result = "Ok" /\ output.buffer = new_data

\* identical inputs decoded, one below MIN_MATCH_LENGTH (no prefix copy is taken)
IdentitySmallWitness ==
    /\ pc = "decoded"
    /\ new_data = base_data
    /\ new_size > WORD_SIZE
    /\ new_size < MIN_MATCH_LENGTH
    /\ prefix_size = 0

\* C8: empty base: for a non-empty new, the instruction stream is exactly one
\* Literal unit of length |new|, the literal data is new, and the delta decodes
\* against the empty base back to new.
EmptyBaseOneLiteral ==
    (base_data = <<>> /\ new_data # <<>>) =>
        /\ Encoded =>
              /\ instruction_stream.buffer
                   = write_delta_unit(with_capacity, literal(U64(new_size))).buffer
              /\ data_stream.buffer = new_data
              /\ delta = write_varint(with_capacity,
                                      U64(Len(instruction_stream.buffer))).buffer
                           \o instruction_stream.buffer \o new_data
        /\ pc = "decoded" => result = "Ok" /\ output.buffer = new_data

EmptyBaseOneLiteralWitness ==
    /\ pc = "decoded"
    /\ base_data = <<>>
    /\ new_size > MIN_MATCH_LENGTH

\* C9: prefix recognition: with p the byte-precise longest common prefix of new
\* and base, if p >= 16 the first unit is Copy(0, p); if p < 16 the encoder
\* uses prefix = 0 and writes no prefix copy.
PrefixRecognised ==
    Encoded =>
        LET p == CommonPrefixLen(new_data, base_data)
        IN  IF p >= MIN_MATCH_LENGTH
            THEN /\ prefix_size = p
                 /\ Len(units) >= 1
                 /\ units[1] = [is_copy |-> TRUE, length |-> p, offset |-> 0,
                                role |-> "prefix"]
                 /\ read_delta_unit(from_slice(instruction_stream.buffer)).unit
                      = copy(U64(0), U64(p))
            ELSE /\ prefix_size = 0
                 /\ ~HasRole("prefix")
                 /\ \A i \in 1..Len(units) : ~(units[i].is_copy /\ units[i].offset = 0)

\* a prefix that ends inside an 8-byte chunk, on the middle-scan path
PrefixRecognisedWitness ==
    /\ pc = "encoded"
    /\ prefix_size > MIN_MATCH_LENGTH
    /\ prefix_size % WORD_SIZE # 0
    /\ prefix_size + suffix_size < base_size
    /\ units[1].role = "prefix"

\* C10: varint round trip: reading back a written 64-bit value from the start
\* returns the value and advances the cursor by the bytes the write produced.
VarintRoundTrip ==
    vpc = "done" =>
        /\ vread.err = "none"
        /\ vread.value = vval
        /\ ~vread.ovf
        /\ vbuf.cursor = Len(vbuf.buffer)
        /\ vbuf.buffer = write_varint(with_capacity, vval).buffer

\* the largest value: ten bytes written and read
VarintRoundTripWitness ==
    /\ vpc = "done"
    /\ vval = U64Max
    /\ Len(vbuf.buffer) = 10
    /\ vbuf.cursor = 10

\* C11 as stated: the unit read back equals the unit written in all three
\* fields, for both kinds and every offset.
UnitRoundTripAllFields ==
    vpc = "unit_done" => vread.err = "none" /\ vread.unit = vval

\* C11, amended: the unit read back has the kind and the length of the unit
\* written, and the whole encoding is consumed; a copy's offset is read back,
\* a literal's offset is not written and reads back as 0, so the units are
\* equal for every copy and for every literal of offset 0.
UnitRoundTrip ==
    vpc = "unit_done" =>
        /\ vread.err = "none"
        /\ ~vread.ovf
        /\ vread.unit.is_copy = vval.is_copy
        /\ vread.unit.length = vval.length
        /\ vread.unit.offset = (IF vval.is_copy THEN vval.offset ELSE U64Zero)
        /\ vbuf.cursor = Len(vbuf.buffer)

\* a copy with a length and an offset of more than one varint byte each has
\* made the round trip
UnitRoundTripWitness ==
    /\ vpc = "unit_done"
    /\ vval.is_copy
    /\ ~Less64(vval.length, Shl(U64(1), HEAD_VARINT_BITS + VARINT_BITS))
    /\ ~Less64(vval.offset, Shl(U64(1), 2 * VARINT_BITS))
    /\ vread.unit = vval

\* the length the delta's leading varint announces, and where the varint ends
Announced == read_varint(from_slice(delta))

\* (bytes consumed by the varint) + L exceeds the delta's size
AnnouncedBeyondEnd ==
    /\ Announced.err = "none"
    /\ \/ AddOverflows(U64(Announced.bs.cursor), Announced.value)
       \/ Less64(U64(Len(delta)), Add64(U64(Announced.bs.cursor), Announced.value))

\* C12: a delta whose announced instruction length reaches past its end is
\* refused with InvalidDelta, and nothing is output.
LengthBeyondEndRejected ==
    (pc = "decoded" /\ AnnouncedBeyondEnd) =>
        result = "InvalidDelta" /\ output = with_capacity

\* offset + length > |base| for a unit of a hand-made delta
BeyondBase(u) ==
    \/ AddOverflows(u.offset, u.length)
    \/ Less64(U64(base_size), Add64(u.offset, u.length))

RECURSIVE LiteralBytes(_)
\* the literal bytes the units of us ask for
LiteralBytes(us) ==
    IF us = <<>> THEN 0
    ELSE (IF Head(us).is_copy THEN 0 ELSE ToNat(Head(us).length)) + LiteralBytes(Tail(us))

\* the units before the i-th are valid: copies within base, literals within
\* the literal data
ValidBefore(i) ==
    \A j \in 1..(i - 1) :
        IF units[j].is_copy THEN ~BeyondBase(units[j])
        ELSE LiteralBytes(SubSeq(units, 1, j)) <= Len(data_stream.buffer)

\* the delta is the well-formed blob of its units, and one of them is a copy
\* reaching past the end of base after valid units only
HasCopyBeyondBase ==
    /\ delta = finalize_delta(instruction_stream, data_stream)
    /\ \E i \in 1..Len(units) :
          units[i].is_copy /\ BeyondBase(units[i]) /\ ValidBefore(i)

\* C13: a delta with a copy unit whose offset + length exceeds |base|, the
\* units before it being valid, is refused with InvalidDelta.
CopyBeyondBaseRejected ==
    (pc = "decoded" /\ HasCopyBeyondBase) => result = "InvalidDelta"

\* C15: decode returns Ok only with the instruction cursor exactly at inst_end;
\* a unit whose encoding runs past inst_end is not accepted.
TerminalCondition ==
    (pc = "decoded" /\ result = "Ok") => delta_stream.cursor = inst_end

\* the delta decode ran on is encode's blob without its last byte
Truncated == delta = Slice(full_delta, 0, Len(full_delta) - 1)

\* C14 as stated: decoding encode's blob without its last byte returns
\* UnexpectedEndOfData, whatever the blob carries.
TruncatedUnexpectedEnd ==
    (pc = "decoded" /\ Truncated) => result = "UnexpectedEndOfData"

\* C14, amended: decoding encode's blob without its last byte returns an error
\* and never Ok: UnexpectedEndOfData when the blob carries literal bytes or has
\* no instructions at all, InvalidDelta when it has instructions and no literal
\* bytes (the byte removed is then an instruction byte).
TruncatedRejected ==
    (pc = "decoded" /\ Truncated) =>
        result = (IF Len(data_stream.buffer) > 0 \/ Len(instruction_stream.buffer) = 0
                  THEN "UnexpectedEndOfData"
                  ELSE "InvalidDelta")

\* a blob of a copy and a literal has been truncated and refused at the literal
TruncatedRejectedWitness ==
    /\ pc = "decoded"
    /\ Truncated
    /\ Len(data_stream.buffer) > 0
    /\ \E i \in 1..Len(units) : units[i].is_copy
    /\ Len(output.buffer) > 0
    /\ result = "UnexpectedEndOfData"

EncodeInRange ==
    /\ pc # "start" =>
          /\ prefix_size <= new_size /\ prefix_size <= base_size
          /\ new_size - prefix_size - suffix_size >= 0
          /\ base_size - prefix_size - suffix_size >= 0
    /\ pc = "scan" =>
          /\ hash_shift \in 0..(U64Bits - 1)
          /\ prefix_size <= literal_start /\ literal_start <= pos
          /\ pos <= new_mid_end
          /\ pos + WORD_SIZE <= new_mid_end =>
                /\ hash_index(fingerprint, hash_shift) \in DOMAIN hash_table
                /\ base_offset >= 0
                /\ base_offset + WORD_SIZE <= base_mid_end
                      => base_offset + WORD_SIZE <= base_size
    /\ Encoded => Len(instruction_stream.buffer) + Len(data_stream.buffer) < Len(delta)

\* a step of encode returns the blob, or moves pos forward and not past the end
\* of the middle: the loop ends
EncodeAdvances ==
    /\ pc = "start" => pc' \in {"scan", "encoded"}
    /\ pc = "scan" => pc' = "encoded" \/ (pc' = "scan" /\ pos < pos' /\ pos' <= new_mid_end)

\* C17: encode is total: in every state of a call every subtraction and index
\* is within range, and every step of the call leads towards its one way out,
\* the return of a blob.
EncodeTotal == []EncodeInRange /\ [][EncodeAdvances]_vars

\* encode has returned after a prefix copy, a scan with a match and a suffix copy
EncodeTotalWitness ==
    /\ pc = "encoded"
    /\ HasRole("prefix") /\ HasRole("match") /\ HasRole("suffix")
    /\ base_size - prefix_size - suffix_size > 0
    /\ new_size - prefix_size - suffix_size > 0

\* the least k with n <= 2^k, n a u64 of 1 .. 2^63
CeilLog2(n) ==
    CHOOSE k \in 0..(U64Bits - 1) :
        /\ ~Less64(Shl(U64(1), k), n)
        /\ k = 0 \/ Less64(Shl(U64(1), k - 1), n)

\* C18 as stated: the hash bits are ceil(log2(L + 10)), between 1 and 32.
HashBitsCeilLog2 ==
    vpc = "sized" =>
        /\ vread = CeilLog2(Add64(vval, U64(10)))
        /\ vread \in 1..HashRangeBits

\* C18, amended: the hash bits are the bit length of L + 10, that is
\* floor(log2(L + 10)) + 1: ceil(log2(L + 10)) when L + 10 is not a power of
\* two, one more when it is; for L below 2^HashRangeBits they lie between 4 and
\* HashRangeBits + 1.
HashBitsBitLength ==
    vpc = "sized" =>
        LET n == Add64(vval, U64(10))
            c == CeilLog2(n)
        IN  /\ ~Less64(n, Shl(U64(1), vread - 1))
            /\ Less64(n, Shl(U64(1), vread))
            /\ vread = (IF n = Shl(U64(1), c) THEN c + 1 ELSE c)
            /\ vread \in 4..(HashRangeBits + 1)

\* the table has been sized for a region of 64 KiB or more whose length + 10 is
\* a power of two
HashBitsBitLengthWitness ==
    /\ vpc = "sized"
    /\ vval[2] > 0
    /\ Add64(vval, U64(10)) = Shl(U64(1), CeilLog2(Add64(vval, U64(10))))
    /\ vread = CeilLog2(Add64(vval, U64(10))) + 1

\* write_varint has run on vval
VarintWritten == vpc \in {"rewind", "read", "done"}

\* the bytes written are the 7-bit groups of vval, least significant first,
\* the top bit set on all but the last, and no bits of vval are left over
VarintLayout ==
    LET b == vbuf.buffer
        n == Len(b)
    IN  /\ n >= 1
        /\ \A i \in 1..n :
              /\ (b[i] >= Pow2(VARINT_BITS)) <=> (i < n)
              /\ b[i] % Pow2(VARINT_BITS)
                    = LowBits(Shr(vval, VARINT_BITS * (i - 1)), VARINT_MASK)
        /\ VARINT_BITS * n >= U64Bits \/ Shr(vval, VARINT_BITS * n) = U64Zero

\* C19 as stated: every value up to 128, 128 included, takes one byte and every
\* value up to 16384, 16384 included, at most two; the bytes have the layout.
VarintSizeUpTo ==
    VarintWritten =>
        /\ Less64(vval, U64(Pow2(VARINT_BITS) + 1)) => Len(vbuf.buffer) = 1
        /\ Less64(vval, U64(Pow2(2 * VARINT_BITS) + 1)) => Len(vbuf.buffer) <= 2
        /\ VarintLayout

\* C19, amended: every value below 128 takes one byte and every value below
\* 16384 at most two, while 128 takes two bytes and 16384 three; the bytes
\* have the layout.
VarintSize ==
    VarintWritten =>
        /\ Less64(vval, U64(Pow2(VARINT_BITS))) => Len(vbuf.buffer) = 1
        /\ Less64(vval, U64(Pow2(2 * VARINT_BITS))) => Len(vbuf.buffer) <= 2
        /\ vval = U64(Pow2(VARINT_BITS)) => Len(vbuf.buffer) = 2
        /\ vval = U64(Pow2(2 * VARINT_BITS)) => Len(vbuf.buffer) = 3
        /\ VarintLayout

\* 16384 has been written, in three bytes
VarintSizeWitness ==
    /\ VarintWritten
    /\ vval = U64(Pow2(2 * VARINT_BITS))
    /\ vbuf.buffer = <<128, 128, 1>>

\* where the last read started, and whether its n bytes lie within the stream
ReadStart ==
    IF vread.op = "peek_at" THEN vread.position ELSE U64(vread.before.cursor)

ReadFits ==
    /\ ~AddOverflows(ReadStart, vread.n)
    /\ ~Less64(U64(Len(vread.before.buffer)), Add64(ReadStart, vread.n))

AtLookup == pc = "scan" /\ pos + WORD_SIZE <= new_mid_end

RECURSIVE LeftOver(_, _, _)
\* what the bytes new[from .. pos) that left the window still add to the
\* fingerprint rolled from `from` to pos: G[new[j]] << (pos - j + W - 1) each,
\* nothing once the shift reaches 64
LeftOver(from, to, acc) ==
    IF from >= to THEN acc
    ELSE LeftOver(from + 1, to,
                  IF to - from + WORD_SIZE - 1 < U64Bits
                  THEN Add64(acc, Shl(G(At(new_data, from)), to - from + WORD_SIZE - 1))
                  ELSE acc)

\* C21 as stated: at every lookup the fingerprint in use is the closed-form
\* fingerprint of the 8 bytes at pos, after any number of misses.
FingerprintClosedForm ==
    AtLookup => fingerprint = compute_fingerprint(new_data, pos)

\* C21, amended: at every lookup the fingerprint in use is the closed-form
\* fingerprint of the 8 bytes at pos plus what the bytes passed since the last
\* computation from scratch (at literal_start) left behind: it is the closed
\* form right after a computation from scratch, and after misses whenever the
\* table's constants shifted left by 8 are 0.
FingerprintRolled ==
    AtLookup =>
        /\ fingerprint = Add64(compute_fingerprint(new_data, pos),
                               LeftOver(literal_start, pos, U64Zero))
        /\ pos = literal_start => fingerprint = compute_fingerprint(new_data, pos)
        /\ \/ fingerprint = compute_fingerprint(new_data, pos)
           \/ \E b \in 0..255 : ShlSmall(G(b), WORD_SIZE) # U64Zero

\* a lookup after a match and two misses, the fingerprint no longer the closed
\* form
FingerprintRolledWitness ==
    /\ AtLookup
    /\ HasRole("match")
    /\ pos >= literal_start + 2
    /\ fingerprint # compute_fingerprint(new_data, pos)

\* the step wrote the Copy unit of a match found by the scan
EmitsMatch ==
    /\ pc = "scan"
    /\ Len(units') > Len(units)
    /\ units'[Len(units')].role = "match"

\* the Copy(cand, m) written at pos lies within both middles and copies equal
\* bytes, and it is the last unit of the instruction stream
MatchVerifiedStep ==
    EmitsMatch =>
        LET cand == units'[Len(units')].offset
            m == units'[Len(units')].length
        IN  /\ cand > 0
            /\ m >= WORD_SIZE
            /\ cand + m <= base_mid_end
            /\ pos + m <= new_mid_end
            /\ Slice(new_data, pos, pos + m) = Slice(base_data, cand, cand + m)
            /\ units'[Len(units')].is_copy
            /\ \E at \in 0..Len(instruction_stream'.buffer) :
                  LET r == read_delta_unit([instruction_stream' EXCEPT !.cursor = at])
                  IN  /\ r.err = "none"
                      /\ r.unit = copy(U64(cand), U64(m))
                      /\ r.bs.cursor = Len(instruction_stream'.buffer)

\* C22: every Copy(cand, m) the middle scan writes at pos has cand > 0, m >= 8,
\* cand + m <= base_mid_end, pos + m <= new_mid_end and
\* new[pos..pos+m] = base[cand..cand+m], whichever slot the fingerprint led to.
MatchVerified == [][MatchVerifiedStep]_vars

\* a match has been written, and the slot looked up now holds a position whose
\* 8 bytes differ from those at pos
MatchVerifiedWitness ==
    /\ AtLookup
    /\ HasRole("match")
    /\ IsMatchByHash
    /\ ~IsMatch

\* the lengths m >= 8 extend_match may return for the input: both regions hold
\* m bytes from the match's start, and those bytes agree
Extensions(i) ==
    {m \in WORD_SIZE..Len(i.new) :
        /\ i.new_pos + m <= i.new_end
        /\ i.base_pos + m <= i.base_end
        /\ Slice(i.new, i.new_pos, i.new_pos + m) = Slice(i.base, i.base_pos, i.base_pos + m)}

\* C23: extend_match returns the largest m >= 8 with equal bytes within both
\* regions: on return a region ends at m or the bytes after m differ; the
\* build with the 16-byte chunks returns what the build without them returns,
\* and both what the byte-by-byte definition gives.
ExtendMaximal ==
    vpc = "extended" =>
        /\ vread \in Extensions(vval)
        /\ \A m \in Extensions(vval) : m <= vread
        /\ \/ vval.new_pos + vread = vval.new_end
           \/ vval.base_pos + vread = vval.base_end
           \/ At(vval.new, vval.new_pos + vread) # At(vval.base, vval.base_pos + vread)
        /\ vread = extend_match(vval.new, vval.base, vval.new_pos, vval.base_pos,
                                vval.new_end, vval.base_end)
        /\ vread = extend_bytes(vval.new, vval.base, vval.new_pos, vval.base_pos,
                                vval.new_end, vval.base_end, WORD_SIZE)

\* a match extended by a 16-byte chunk, an 8-byte chunk and single bytes, up
\* to a differing byte inside both regions
ExtendMaximalWitness ==
    /\ vpc = "extended"
    /\ vval.simd
    /\ vread > WORD_SIZE + 16 + 8
    /\ vread < WORD_SIZE + 16 + 16
    /\ vval.new_pos + vread < vval.new_end
    /\ vval.base_pos + vread < vval.base_end

\* the lengths s find_common_suffix may return for the input: at most what
\* either blob holds behind the prefix, the last s bytes of both equal
CommonSuffixes(i) ==
    {s \in 0..Min(Len(i.new) - i.prefix_len, Len(i.base) - i.prefix_len) :
        \A k \in 1..s : i.new[Len(i.new) - s + k] = i.base[Len(i.base) - s + k]}

\* C27: with the prefix encode has chosen (0, or the full common prefix when
\* that is 16 or more), find_common_suffix returns the largest
\* s <= min(new_len - prefix, base_len - prefix) with the last s bytes of new
\* and base equal, in the build with the 16-byte chunks as in the build
\* without them and as the byte-by-byte comparison; encode takes 0 in place of
\* a result below 16.
SuffixMaximal ==
    vpc = "suffixed" =>
        /\ vval.prefix_len
             = (IF CommonPrefixLen(vval.new, vval.base) >= MIN_MATCH_LENGTH
                THEN CommonPrefixLen(vval.new, vval.base) ELSE 0)
        /\ vread.suffix_len \in CommonSuffixes(vval)
        /\ \A s \in CommonSuffixes(vval) : s <= vread.suffix_len
        /\ vread.suffix_len = find_common_suffix(vval.new, vval.base, vval.prefix_len)
        /\ vread.suffix_len
             = suffix_bytes(vval.new, vval.base, 0,
                            Min(Len(vval.new) - vval.prefix_len,
                                Len(vval.base) - vval.prefix_len))
        /\ vread.suffix_size
             = (IF vread.suffix_len < MIN_MATCH_LENGTH THEN 0 ELSE vread.suffix_len)

\* a shared tail behind a prefix, found by a 16-byte chunk, an 8-byte chunk and
\* single bytes, shorter than what the blobs hold behind the prefix
SuffixMaximalWitness ==
    /\ vpc = "suffixed"
    /\ vval.simd
    /\ vval.prefix_len >= MIN_MATCH_LENGTH
    /\ vread.suffix_len > 16 + 8
    /\ vread.suffix_len < 16 + 16
    /\ vread.suffix_len < Len(vval.new) - vval.prefix_len
    /\ vread.suffix_len < Len(vval.base) - vval.prefix_len
    /\ vread.suffix_size = vread.suffix_len

RECURSIVE LiteralData(_, _)
\* the bytes of new the Literal units among the first n units stand for, in
\* the order of the units: a unit stands for the bytes of new from the sum of
\* the lengths before it
LiteralData(us, n) ==
    IF n = 0 THEN <<>>
    ELSE LiteralData(us, n - 1)
           \o (IF us[n].is_copy THEN <<>>
               ELSE Slice(new_data, SumLengths(us, n - 1), SumLengths(us, n)))

\* the units as write_delta_unit is handed them
AsWritten(us) ==
    [i \in 1..Len(us) |->
        IF us[i].is_copy THEN copy(U64(us[i].offset), U64(us[i].length))
        ELSE literal(U64(us[i].length))]

\* in the loop: the bounds, and everything before literal_start is written
PendingLiteralInv ==
    pc = "scan" =>
        /\ prefix_size <= literal_start
        /\ literal_start <= pos
        /\ pos <= new_mid_end
        /\ SumLengths(units, Len(units)) = literal_start
        /\ data_stream.buffer = LiteralData(units, Len(units))
        /\ instruction_stream.buffer = inst_bytes(AsWritten(units))

\* the pending literal new[literal_start .. to) as a unit, if it is not empty
Pending(to) ==
    IF literal_start < to
    THEN <<[is_copy |-> FALSE, length |-> to - literal_start, offset |-> 0,
            role |-> "literal"]>>
    ELSE <<>>

\* a step of the loop: a miss writes nothing; a match writes the pending literal
\* (unit and bytes), then the Copy unit, and nothing else; leaving the loop
\* writes the rest of the middle as one literal, before the suffix copy
PendingLiteralStep ==
    pc = "scan" =>
        LET wrote == SubSeq(units', Len(units) + 1, Len(units'))
            bytes == SubSeq(data_stream'.buffer, Len(data_stream.buffer) + 1,
                            Len(data_stream'.buffer))
        IN  /\ SubSeq(units', 1, Len(units)) = units
            /\ SubSeq(data_stream'.buffer, 1, Len(data_stream.buffer)) = data_stream.buffer
            /\ instruction_stream'.buffer = inst_bytes(AsWritten(units'))
            /\ IF pc' = "scan" /\ pos' = pos + 1 /\ literal_start' = literal_start
               THEN wrote = <<>> /\ bytes = <<>>
               ELSE IF pc' = "scan"
               THEN /\ Len(wrote) = Len(Pending(pos)) + 1
                    /\ SubSeq(wrote, 1, Len(wrote) - 1) = Pending(pos)
                    /\ wrote[Len(wrote)].role = "match"
                    /\ bytes = Slice(new_data, literal_start, pos)
                    /\ literal_start' = pos'
               ELSE /\ \E s \in {<<>>, <<[is_copy |-> TRUE, length |-> suffix_size,
                                         offset |-> base_size - suffix_size,
                                         role |-> "suffix"]>>} :
                          wrote = Pending(new_mid_end) \o s
                    /\ bytes = Slice(new_data, literal_start, new_mid_end)

\* C24: at every step of the middle scan prefix <= lit_start <= pos <=
\* new_mid_end, the lengths of the units written sum to lit_start and the
\* literal data is the bytes of the Literal units in instruction order; a match
\* writes the one pending literal before its Copy unit, and the end of the loop
\* writes what is left as one literal.
PendingLiteral == []PendingLiteralInv /\ [][PendingLiteralStep]_vars

\* the scan has written a literal before a match and a last literal after the
\* loop
PendingLiteralWitness ==
    /\ pc = "encoded"
    /\ HasRole("prefix")
    /\ \E i \in 1..(Len(units) - 1) : units[i].role = "literal" /\ units[i + 1].role = "match"
    /\ \E i \in 2..Len(units) : units[i].role = "literal" /\ units[i - 1].role = "match"

\* the delta has the layout of finalize_delta for its units and literal data,
\* and every copy lies within base
InBoundsDelta ==
    /\ delta = finalize_delta(instruction_stream, data_stream)
    /\ \A i \in 1..Len(units) : units[i].is_copy => ~BeyondBase(units[i])

RECURSIVE Decoded(_, _, _)
\* what the units us stand for after out, the literal data read up to cur: the
\* bytes, or UnexpectedEndOfData at the first literal longer than what is left
Decoded(us, cur, out) ==
    IF us = <<>> THEN [err |-> "Ok", out |-> out]
    ELSE LET u == Head(us)
         IN  IF u.is_copy
             THEN Decoded(Tail(us), cur,
                          out \o Slice(base_data, ToNat(u.offset),
                                       ToNat(u.offset) + ToNat(u.length)))
             ELSE IF \/ AddOverflows(U64(cur), u.length)
                     \/ Less64(U64(Len(data_stream.buffer)), Add64(U64(cur), u.length))
             THEN [err |-> "UnexpectedEndOfData", out |-> out]
             ELSE Decoded(Tail(us), cur + ToNat(u.length),
                          out \o Slice(data_stream.buffer, cur, cur + ToNat(u.length)))

RECURSIVE SumUnitLengths(_)
SumUnitLengths(us) ==
    IF us = <<>> THEN 0 ELSE ToNat(Head(us).length) + SumUnitLengths(Tail(us))

\* C25: for a delta of the layout varint(L), L instruction bytes, literal data
\* whose units are in bounds, decode returns the bytes its units stand for, in
\* instruction order, as many as the unit lengths sum to; a Literal longer
\* than the literal data left yields UnexpectedEndOfData.
DecoderSemantics ==
    (pc = "decoded" /\ InBoundsDelta) =>
        LET d == Decoded(units, 0, <<>>)
        IN  /\ result = d.err
            /\ result = "Ok" =>
                  /\ output.buffer = d.out
                  /\ Len(output.buffer) = SumUnitLengths(units)

\* an iteration of the scan that stays in the loop moves pos forward, by 1 on a
\* miss and by the match length, 8 or more, on a match, and not past the end
ScanAdvances ==
    (pc = "scan" /\ pc' = "scan") =>
        /\ pos + WORD_SIZE <= new_mid_end
        /\ IF Len(units') > Len(units)
           THEN pos' = pos + units'[Len(units')].length /\ pos' >= pos + WORD_SIZE
           ELSE pos' = pos + 1
        /\ pos' <= new_mid_end

\* an iteration of decode's loop starts before inst_end and moves the
\* instruction cursor forward by at least one byte, within the delta
DecodeAdvances ==
    (pc = "decoding" /\ pc' = "decoding") =>
        /\ delta_stream.cursor < inst_end
        /\ delta_stream'.cursor > delta_stream.cursor
        /\ delta_stream'.cursor <= Len(delta)

\* what moves forward has an end: pos the end of the middle, the instruction
\* cursor the end of the delta
LoopsBounded ==
    /\ pc = "scan" => pos <= new_mid_end
    /\ pc = "decoding" => delta_stream.cursor <= Len(delta)

\* C26: the middle scan ends because every iteration moves pos forward (by 1 on
\* a miss, by m >= 8 on a match) until pos + 8 > new_mid_end; decode's loop
\* ends because every unit read moves the instruction cursor forward by at
\* least one byte, units of length 0 included, until inst_end or an error.
LoopsTerminate == []LoopsBounded /\ [][ScanAdvances /\ DecodeAdvances]_vars

\* a scan with a miss and a match, and a decode of its three or more units,
\* have both ended
LoopsTerminateWitness ==
    /\ pc = "decoded"
    /\ result = "Ok"
    /\ Len(new_data) > 0
    /\ Len(units) >= 3
    /\ HasRole("match")
    /\ HasRole("literal")
    /\ delta_stream.cursor = inst_end

\* the suffix length of lines 26-32, before the clamp of lines 34-37
SuffixBeforeClamp ==
    LET suffix_len == find_common_suffix(new_data, base_data, prefix_size)
    IN  IF suffix_len >= MIN_MATCH_LENGTH THEN suffix_len ELSE 0

\* C28: after the prefix and suffix steps prefix_size + suffix_size <=
\* min(new_len, base_len), the clamp for prefix + suffix > new_len is not
\* taken, and every prefix or suffix copy written has a length of 16 or more.
PrefixSuffixDisjoint ==
    pc # "start" =>
        /\ prefix_size + suffix_size <= Min(new_size, base_size)
        /\ prefix_size + SuffixBeforeClamp <= new_size
        /\ suffix_size = SuffixBeforeClamp
        /\ prefix_size = 0 \/ prefix_size >= MIN_MATCH_LENGTH
        /\ suffix_size = 0 \/ suffix_size >= MIN_MATCH_LENGTH
        /\ \A i \in 1..Len(units) :
              units[i].role \in {"prefix", "suffix"} =>
                  /\ units[i].length >= MIN_MATCH_LENGTH
                  /\ units[i].length = (IF units[i].role = "prefix" THEN prefix_size
                                        ELSE suffix_size)

\* a prefix copy and a suffix copy that share out all of the shorter blob, the
\* suffix search having stopped where the prefix ends
PrefixSuffixDisjointWitness ==
    /\ pc = "encoded"
    /\ HasRole("prefix") /\ HasRole("suffix")
    /\ prefix_size + suffix_size = Min(new_size, base_size)
    /\ new_size # base_size

\* the delta decode ran on is a strict prefix of encode's blob
StrictPrefix ==
    /\ Len(delta) < Len(full_delta)
    /\ delta = Slice(full_delta, 0, Len(delta))

\* where the blob was cut: inside the length varint, inside the instruction
\* stream, or inside the literal data
CutIn ==
    LET head == Len(full_delta) - Len(instruction_stream.buffer) - Len(data_stream.buffer)
    IN  IF Len(delta) < head THEN "varint"
        ELSE IF Len(delta) < head + Len(instruction_stream.buffer) THEN "instructions"
        ELSE "data"

\* C29: decoding a strict prefix of encode's blob, cut anywhere, returns an
\* error and never Ok.
PrefixRejected ==
    (pc = "decoded" /\ StrictPrefix) =>
        /\ result \in {"UnexpectedEndOfData", "InvalidDelta"}
        /\ CutIn = "varint" => result = "UnexpectedEndOfData" /\ output = with_capacity
        /\ CutIn = "instructions" => result = "InvalidDelta" /\ output = with_capacity
        /\ CutIn = "data" => result = "UnexpectedEndOfData"

\* a blob cut inside its literal data, before the bytes of its last literal,
\* has been refused after a copy and a literal were decoded
PrefixRejectedWitness ==
    /\ pc = "decoded"
    /\ StrictPrefix
    /\ CutIn = "data"
    /\ Len(delta) < Len(full_delta) - 1
    /\ HasRole("match")
    /\ Len(output.buffer) > 0
    /\ lit_stream.cursor > 0
    /\ result = "UnexpectedEndOfData"

\* C30: decode is total on arbitrary bytes: it returns Ok or an error value,
\* and no addition or shift on the way leaves the 64-bit range (no step splits
\* the run into the build that panics and the build that wraps).
DecodeTotal ==
    /\ overflow_checks = "any"
    /\ result \in {"none", "Ok", "UnexpectedEndOfData", "InvalidDelta"}
    /\ pc = "decoded" => result # "none"

====
